---- MODULE Spec2Model ----
(***************************************************************************)
(* A model of algolib's pure numerics kernel: the generic Newton root      *)
(* finder, newton_sqrt, exp, log and the hyperbolic functions.             *)
(*                                                                         *)
(* Python floats are modelled as a binary floating-point format with the   *)
(* exponent range of binary64 (DBL_MIN_EXP .. DBL_MAX_EXP), signed zeros,  *)
(* subnormals, infinities and NaN, round-to-nearest-even, and a            *)
(* significand of Prec bits instead of 53.  A value is a record            *)
(*    [t, neg, m, e]   t = "fin": (-1)^neg * m * 2^e,  t = "inf", "nan"    *)
(* and an exception raised while computing a value is a record whose t is  *)
(* the exception's class name; every operation propagates the exception of *)
(* its first raising operand, as Python's left-to-right evaluation does.   *)
(* Literals of the source are given to 30 bits and rounded to the format.  *)
(* Literals that the source states in units of the machine epsilon (the    *)
(* tolerances 1e-15 = 4.5 * 2^-52) keep that ratio to the format's epsilon.*)
(***************************************************************************)
EXTENDS Integers, Sequences, FiniteSets, TLC

\* ------------------------------------------------------------------------
\* The floating-point format
\* ------------------------------------------------------------------------

\* Significand bits of the modelled format (binary64 has DBL_MANT_DIG = 53).
Prec == 13

DBL_MANT_DIG == 53
DBL_MIN_EXP == -1022
DBL_MAX_EXP == 1024

\* Exponent of the unit in the last place of the smallest and largest binade.
ULo == DBL_MIN_EXP - (Prec - 1)
UHi == (DBL_MAX_EXP - 1) - (Prec - 1)

Pow2(n) == 2 ^ n

RECURSIVE BitLen(_)
BitLen(n) == IF n = 0 THEN 0 ELSE 1 + BitLen(n \div 2)

Fin(neg, m, e) == [t |-> "fin", neg |-> neg, m |-> m, e |-> e]
NAN == [t |-> "nan", neg |-> FALSE, m |-> 0, e |-> 0]
INF == [t |-> "inf", neg |-> FALSE, m |-> 0, e |-> 0]
NINF == [t |-> "inf", neg |-> TRUE, m |-> 0, e |-> 0]
SInf(neg) == IF neg THEN NINF ELSE INF
Zero(neg) == Fin(neg, 0, ULo)
Exc(kind) == [t |-> kind, neg |-> FALSE, m |-> 0, e |-> 0]

IsNaN(a) == a.t = "nan"
IsInf(a) == a.t = "inf"
IsFin(a) == a.t = "fin"
IsExc(a) == a.t \notin {"fin", "inf", "nan"}
IsZero(a) == a.t = "fin" /\ a.m = 0

\* A significand m1 of at most Prec + 1 bits at exponent et: the carry out of
\* the top bit moves to the next binade, the largest binade overflows.
RoundCarry(neg, m1, et) ==
    IF m1 = Pow2(Prec)
    THEN (IF et + 1 > UHi THEN SInf(neg) ELSE Fin(neg, Pow2(Prec - 1), et + 1))
    ELSE IF et > UHi THEN SInf(neg) ELSE Fin(neg, m1, et)

\* q with remainder r out of 2 * half discarded: to nearest, ties to even.
RoundUp(q, r, half, sticky) ==
    IF r > half \/ (r = half /\ (sticky \/ q % 2 = 1)) THEN q + 1 ELSE q

\* M * 2^E rounded to a significand at exponent et, s = et - E bits dropped.
RoundTo(neg, M, E, sticky, L, et, s) ==
    IF s <= 0
    THEN (IF et > UHi THEN SInf(neg) ELSE Fin(neg, M * Pow2(-s), et))
    ELSE IF s > L THEN Zero(neg)
    ELSE RoundCarry(neg, RoundUp(M \div Pow2(s), M % Pow2(s), Pow2(s - 1), sticky), et)

\* The exponent of the result's last place for an L-bit M at exponent E.
RoundAt(neg, M, E, sticky, L, et) == RoundTo(neg, M, E, sticky, L, et, et - E)

\* The float nearest to (-1)^neg * M * 2^E (ties to even); sticky says that
\* the exact value lies strictly above M * 2^E (a discarded remainder).
Round(neg, M, E, sticky) ==
    IF M = 0 THEN Zero(neg)
    ELSE RoundAt(neg, M, E, sticky, BitLen(M),
                 IF E + BitLen(M) - Prec > ULo THEN E + BitLen(M) - Prec ELSE ULo)

\* float(k) for a Python int k.
FromInt(k) == Round(k < 0, IF k < 0 THEN -k ELSE k, 0, FALSE)

\* -a; the sign of a NaN cannot be observed, so there is one NaN.
FNeg(a) == IF IsExc(a) \/ a.t = "nan" THEN a ELSE [a EXCEPT !.neg = ~a.neg]

\* abs(a)
FAbs(a) == IF IsExc(a) THEN a ELSE [a EXCEPT !.neg = FALSE]

\* |a| < |b| for two non-NaN values.
MagLt(a, b) ==
    IF IsInf(a) THEN FALSE
    ELSE IF IsInf(b) THEN TRUE
    ELSE a.e < b.e \/ (a.e = b.e /\ a.m < b.m)

Sgn(a) == IF IsZero(a) THEN 0 ELSE IF a.neg THEN -1 ELSE 1

\* a < b, a == b, a <= b, a > b, a >= b, a != b (every comparison with NaN
\* but != is False).
FLt(a, b) ==
    /\ ~IsNaN(a) /\ ~IsNaN(b)
    /\ \/ Sgn(a) < Sgn(b)
       \/ Sgn(a) = 1 /\ Sgn(b) = 1 /\ MagLt(a, b)
       \/ Sgn(a) = -1 /\ Sgn(b) = -1 /\ MagLt(b, a)
FEq(a, b) ==
    /\ ~IsNaN(a) /\ ~IsNaN(b)
    /\ \/ IsZero(a) /\ IsZero(b)
       \/ a = b
FLe(a, b) == FLt(a, b) \/ FEq(a, b)
FGt(a, b) == FLt(b, a)
FGe(a, b) == FLe(b, a)
FNe(a, b) == ~FEq(a, b)

\* max(a, b) as Python's builtin: b only when b > a.
PyMax(a, b) == IF FGt(b, a) THEN b ELSE a

\* The exact integer sum S in units of 2^E, rounded.
AddRound(S, E) ==
    IF S = 0 THEN Zero(FALSE)
    ELSE Round(S < 0, IF S < 0 THEN -S ELSE S, E, FALSE)

\* hi + lo for non-zero finite values with hi.e >= lo.e.
AddAligned(hi, lo) ==
    IF hi.e - lo.e > Prec + 1 THEN hi
    ELSE AddRound((IF hi.neg THEN -1 ELSE 1) * hi.m * Pow2(hi.e - lo.e)
                    + (IF lo.neg THEN -1 ELSE 1) * lo.m, lo.e)

\* a + b
FAdd(a, b) ==
    IF IsExc(a) THEN a
    ELSE IF IsExc(b) THEN b
    ELSE IF IsNaN(a) \/ IsNaN(b) THEN NAN
    ELSE IF IsInf(a) THEN (IF IsInf(b) /\ a.neg # b.neg THEN NAN ELSE a)
    ELSE IF IsInf(b) THEN b
    ELSE IF a.m = 0 /\ b.m = 0 THEN Zero(a.neg /\ b.neg)
    ELSE IF a.m = 0 THEN b
    ELSE IF b.m = 0 THEN a
    ELSE AddAligned(IF a.e >= b.e THEN a ELSE b, IF a.e >= b.e THEN b ELSE a)

\* a - b
FSub(a, b) == FAdd(a, FNeg(b))

\* a * b
FMul(a, b) ==
    IF IsExc(a) THEN a
    ELSE IF IsExc(b) THEN b
    ELSE IF IsNaN(a) \/ IsNaN(b) THEN NAN
    ELSE IF IsInf(a) \/ IsInf(b)
         THEN (IF IsZero(a) \/ IsZero(b) THEN NAN ELSE SInf(a.neg # b.neg))
    ELSE Round(a.neg # b.neg, a.m * b.m, a.e + b.e, FALSE)

\* A non-zero finite value with its significand shifted up to Prec bits.
NormM(a) == a.m * Pow2(Prec - BitLen(a.m))
NormE(a) == a.e - (Prec - BitLen(a.m))

\* The quotient of the integers num and den at exponent E, rounded.
DivRound(neg, num, den, E) == Round(neg, num \div den, E, num % den # 0)

\* a / b: Python raises ZeroDivisionError for a zero divisor, whatever a is.
FDiv(a, b) ==
    IF IsExc(a) THEN a
    ELSE IF IsExc(b) THEN b
    ELSE IF IsZero(b) THEN Exc("ZeroDivisionError")
    ELSE IF IsNaN(a) \/ IsNaN(b) THEN NAN
    ELSE IF IsInf(a) THEN (IF IsInf(b) THEN NAN ELSE SInf(a.neg # b.neg))
    ELSE IF IsInf(b) THEN Zero(a.neg # b.neg)
    ELSE IF a.m = 0 THEN Zero(a.neg # b.neg)
    ELSE DivRound(a.neg # b.neg, NormM(a) * Pow2(Prec + 2), NormM(b),
                  NormE(a) - NormE(b) - (Prec + 2))

\* 2.0 ** k for a Python int k: float_pow raises OverflowError when the
\* result is out of range and underflows to zero silently.
Pow2F(k) ==
    IF k > DBL_MAX_EXP - 1 THEN Exc("OverflowError")
    ELSE IF k < ULo THEN Zero(FALSE)
    ELSE IF k - (Prec - 1) >= ULo THEN Fin(FALSE, Pow2(Prec - 1), k - (Prec - 1))
    ELSE Fin(FALSE, Pow2(k - ULo), ULo)

\* a ** 2 for a float a with rounded square sq: OverflowError when a finite
\* a squares to an infinity.
SquareOf(a, sq) ==
    IF IsExc(a) THEN a
    ELSE IF IsFin(a) /\ IsInf(sq) THEN Exc("OverflowError")
    ELSE sq
FSquare(a) == SquareOf(a, FMul(a, a))

\* int(a) for a finite a of small magnitude: truncation toward zero.
TruncMag(a) ==
    IF a.e >= 0 THEN a.m * Pow2(a.e)
    ELSE IF -a.e >= BitLen(a.m) THEN 0
    ELSE a.m \div Pow2(-a.e)
TruncInt(a) == IF a.neg THEN -TruncMag(a) ELSE TruncMag(a)

\* A literal of the source, given as M * 2^E to 30 bits.
Lit(neg, M, E) == Round(neg, M, E, FALSE)

\* A literal the source states in units of the binary64 epsilon.
EpsLit(M, E) == Round(FALSE, M, E + (DBL_MANT_DIG - Prec), FALSE)

One == FromInt(1)
Two == FromInt(2)
Half == Lit(FALSE, 1, -1)

\* ------------------------------------------------------------------------
\* numerics/constants.py, numerics/exp.py
\* ------------------------------------------------------------------------

LN2 == Lit(FALSE, 372130559, -29)          \* 6.9314718055994530941e-1
LN2_HI == Lit(FALSE, 372130559, -29)       \* 0.6931471805599453
LN2_LO == Lit(FALSE, 182155761, -84)       \* 9.4172321214581765e-18
INV_LN2 == Lit(FALSE, 387270501, -28)      \* 1.4426950408889634
LOG2_E == INV_LN2
MAX_LOG == Lit(FALSE, 372130559, -19)      \* 709.782712893384
MIN_LOG == Lit(TRUE, 390664405, -19)       \* -745.1332191019411

\* r = x - k * LN2_HI; r -= k * LN2_LO
exp_r(x, k) ==
    [k |-> k,
     r |-> FSub(FSub(x, FMul(FromInt(k), LN2_HI)), FMul(FromInt(k), LN2_LO))]

\* k = int(x * LOG2_E), and the r that goes with it.
exp_trunc(x) == exp_r(x, TruncInt(FMul(x, LOG2_E)))

half_ln2 == FMul(Half, FAdd(LN2_HI, LN2_LO))

\* A faulty variant of exp_shift: k moves, r is shifted the wrong way.
exp_shift_wrong_way(kr) ==
    IF FGt(kr.r, half_ln2)
    THEN [k |-> kr.k + 1, r |-> FAdd(FAdd(kr.r, LN2_HI), LN2_LO)]
    ELSE IF FLt(kr.r, FNeg(half_ln2))
    THEN [k |-> kr.k - 1, r |-> FSub(FSub(kr.r, LN2_HI), LN2_LO)]
    ELSE kr

\* If r drifted outside the target interval, shift by one ln2.
exp_shift(kr) ==
    IF FGt(kr.r, half_ln2)
    THEN [k |-> kr.k + 1, r |-> FSub(FSub(kr.r, LN2_HI), LN2_LO)]
    ELSE IF FLt(kr.r, FNeg(half_ln2))
    THEN [k |-> kr.k - 1, r |-> FAdd(FAdd(kr.r, LN2_HI), LN2_LO)]
    ELSE kr

\* Guard against hitting k == +-1024.
exp_guard(kr) ==
    IF kr.k >= 1024
    THEN [k |-> kr.k - 1, r |-> FAdd(FAdd(kr.r, LN2_HI), LN2_LO)]
    ELSE IF kr.k <= -1024
    THEN [k |-> kr.k + 1, r |-> FSub(FSub(kr.r, LN2_HI), LN2_LO)]
    ELSE kr

\* The (k, r) that exp reconstructs from, for a finite x within the clamps.
exp_reduce(x) == exp_guard(exp_shift(exp_trunc(x)))

\* num / den of the Pade [5/5] kernel from the powers of r.
exp_pade(r, r2, r3, r4, r5) ==
    FDiv(FAdd(FAdd(FAdd(FAdd(FAdd(FromInt(30240),
            FMul(FromInt(15120), r)), FMul(FromInt(3360), r2)),
            FMul(FromInt(420), r3)), FMul(FromInt(30), r4)), r5),
         FSub(FAdd(FSub(FAdd(FSub(FromInt(30240),
            FMul(FromInt(15120), r)), FMul(FromInt(3360), r2)),
            FMul(FromInt(420), r3)), FMul(FromInt(30), r4)), r5))

\* r3 = r2 * r; r4 = r2 * r2; r5 = r4 * r
exp_powers(r, r2, r4) == exp_pade(r, r2, FMul(r2, r), r4, FMul(r4, r))
exp_squares(r, r2) == exp_powers(r, r2, FMul(r2, r2))

\* Pade [5/5] kernel: r2 = r * r first.
exp_kernel(r) == exp_squares(r, FMul(r, r))

\* Reconstruct: exp(x) = 2**k * exp(r).
exp_scale(kr) == FMul(Pow2F(kr.k), exp_kernel(kr.r))

\* A faulty variant of exp: the two clamps answer for each other.
exp_swapped_clamps(x) ==
    IF FNe(x, x) THEN NAN
    ELSE IF FEq(x, INF) THEN INF
    ELSE IF FEq(x, NINF) THEN Zero(FALSE)
    ELSE IF FGt(x, MAX_LOG) THEN Zero(FALSE)
    ELSE IF FLt(x, MIN_LOG) THEN INF
    ELSE exp_scale(exp_reduce(x))


exp(x) ==
    IF FNe(x, x) THEN NAN
    ELSE IF FEq(x, INF) THEN INF
    ELSE IF FEq(x, NINF) THEN Zero(FALSE)
    ELSE IF FGt(x, MAX_LOG) THEN INF
    ELSE IF FLt(x, MIN_LOG) THEN Zero(FALSE)
    ELSE exp_scale(exp_reduce(x))

\* ------------------------------------------------------------------------
\* algorithms/rootfinding.py: newton
\* ------------------------------------------------------------------------

\* A callable handed to newton: a tag and the constant its body closes over.
Fn(tag, c) == [fn |-> tag, c |-> c]
None == Fn("None", NAN)

Apply(f, x) ==
    CASE f.fn = "linear" -> FSub(x, f.c)                         \* x - c
      [] f.fn = "quad" -> FAdd(FSquare(FSub(x, One)), One)       \* (x - 1.0) ** 2 + 1.0
      [] f.fn = "quadprime" -> FMul(Two, FSub(x, One))           \* 2.0 * (x - 1.0)
      [] f.fn = "const" -> f.c                                   \* c
      [] f.fn = "expminus" -> FSub(exp(x), f.c)                  \* exp(y) - x
      [] f.fn = "exp" -> exp(x)                                  \* exp(y)

\* The payload of a ConvergenceError, and its absence.
ErrInfo(i, residual, tol) == [iterations |-> i, residual |-> residual, target_tol |-> tol]
NoErr == ErrInfo(-1, NAN, NAN)

\* What one pass through a loop body did: kind is "raise", "return" or
\* "continue", v the exception or the new iterate, fx and dfx the function
\* value and the derivative the pass evaluated, dx the step it took.
Outcome(kind, v, fx, dfx, dx, err) ==
    [kind |-> kind, v |-> v, fx |-> fx, dfx |-> dfx, dx |-> dx, err |-> err]

\* A faulty variant of newton_test: the convergence test is strict, so a step
\* dx = 0 does not converge under tol = 0.
newton_test_strict(tol, fx, dfx, dx, x_new) ==
    IF FLt(FAbs(dx), FMul(tol, PyMax(One, FAbs(x_new))))
    THEN Outcome("return", x_new, fx, dfx, dx, NoErr)
    ELSE Outcome("continue", x_new, fx, dfx, dx, NoErr)

\* The convergence test on the step dx to x_new, and the pass's outcome.
newton_test(tol, fx, dfx, dx, x_new) ==
    IF FLe(FAbs(dx), FMul(tol, PyMax(One, FAbs(x_new))))
    THEN Outcome("return", x_new, fx, dfx, dx, NoErr)
    ELSE Outcome("continue", x_new, fx, dfx, dx, NoErr)

\* x_new = x + dx
newton_move(x, tol, fx, dfx, dx) == newton_test(tol, fx, dfx, dx, FAdd(x, dx))

\* A faulty variant of newton_update: the zero-derivative test is left out,
\* so the division by dfx raises.
newton_update_unchecked(x, i, tol, fx, dfx) ==
    IF IsExc(fx) THEN Outcome("raise", fx, NAN, NAN, NAN, NoErr)
    ELSE IF IsExc(dfx) THEN Outcome("raise", dfx, fx, NAN, NAN, NoErr)
    ELSE IF FEq(dfx, Zero(FALSE))
    THEN Outcome("raise", Exc("ZeroDivisionError"), fx, dfx, NAN, NoErr)
    ELSE newton_move(x, tol, fx, dfx, FDiv(FNeg(fx), dfx))

\* From the function value and the derivative on: the zero-derivative raise,
\* or dx = -fx / dfx and the update.
newton_update(x, i, tol, fx, dfx) ==
    IF IsExc(fx) THEN Outcome("raise", fx, NAN, NAN, NAN, NoErr)
    ELSE IF IsExc(dfx) THEN Outcome("raise", dfx, fx, NAN, NAN, NoErr)
    ELSE IF FEq(dfx, Zero(FALSE))
    THEN Outcome("raise", Exc("ConvergenceError"), fx, dfx, NAN,
                 ErrInfo(i, fx, tol))
    ELSE newton_move(x, tol, fx, dfx, FDiv(FNeg(fx), dfx))

\* dfx = (f(x + h) - fx) / h
newton_fd(f, x, fx, h) == FDiv(FSub(Apply(f, FAdd(x, h)), fx), h)

\* The derivative: the forward difference with h = fd_eps * max(1.0, abs(x))
\* when fprime is None, else fprime(x).
newton_dfx(f, fprime, x, fx, fd_eps) ==
    IF fprime = None
    THEN newton_fd(f, x, fx, FMul(fd_eps, PyMax(One, FAbs(x))))
    ELSE Apply(fprime, x)

\* fx = f(x), then the derivative.
newton_eval(f, fprime, x, i, tol, fd_eps, fx) ==
    newton_update(x, i, tol, fx, newton_dfx(f, fprime, x, fx, fd_eps))

\* One pass through the body of newton's loop at iterate x, 0-based pass i:
\* "raise" with the exception, "return" with x_new, or "continue" with x_new.
newton_step(f, fprime, x, i, tol, fd_eps) ==
    newton_eval(f, fprime, x, i, tol, fd_eps, Apply(f, x))

\* A faulty variant of newton_exhausted: the last iterate is returned as a
\* best-effort result.
newton_exhausted_best_effort(f, x, tol, max_iter) ==
    Outcome("return", x, Apply(f, x), NAN, NAN, NoErr)

\* A faulty variant of newton_residual: the residual keeps its sign.
newton_residual_signed(fx, tol, max_iter) ==
    IF IsExc(fx) THEN Outcome("raise", fx, NAN, NAN, NAN, NoErr)
    ELSE Outcome("raise", Exc("ConvergenceError"), fx, NAN, NAN,
                 ErrInfo(max_iter, fx, tol))

\* The raise after the loop: residual = abs(f(x)).
newton_residual(fx, tol, max_iter) ==
    IF IsExc(fx) THEN Outcome("raise", fx, NAN, NAN, NAN, NoErr)
    ELSE Outcome("raise", Exc("ConvergenceError"), fx, NAN, NAN,
                 ErrInfo(max_iter, FAbs(fx), tol))
newton_exhausted(f, x, tol, max_iter) ==
    newton_residual(Apply(f, x), tol, max_iter)

\* The loop from pass i at iterate x, given that pass's outcome s.
RECURSIVE newton_run(_, _, _, _, _, _, _)
newton_next(f, fprime, i, tol, max_iter, fd_eps, s) ==
    IF s.kind = "continue"
    THEN newton_run(f, fprime, s.v, i + 1, tol, max_iter, fd_eps)
    ELSE s.v
newton_run(f, fprime, x, i, tol, max_iter, fd_eps) ==
    IF i >= max_iter THEN newton_exhausted(f, x, tol, max_iter).v
    ELSE newton_next(f, fprime, i, tol, max_iter, fd_eps,
                     newton_step(f, fprime, x, i, tol, fd_eps))

\* newton(f, fprime, x0, tol=, max_iter=, fd_eps=): the value returned or the
\* exception raised.
newton(f, fprime, x0, tol, max_iter, fd_eps) ==
    newton_run(f, fprime, x0, 0, tol, max_iter, fd_eps)

TOL_DEFAULT == EpsLit(302231455, -78)      \* 1e-15
FD_EPS_DEFAULT == Lit(FALSE, 180143985, -54) \* 1e-8

\* ------------------------------------------------------------------------
\* Python's float.hex
\* ------------------------------------------------------------------------

\* The binary exponent after 'p' and the value of the hexadecimal significand
\* before it, for a finite non-zero x: '0x1.8p-1', and '0x0.0001p-1022' for a
\* subnormal.
hex_exp(x) == x.e + (Prec - 1)
hex_mant(x) == Round(FALSE, x.m, -(Prec - 1), FALSE)

\* ------------------------------------------------------------------------
\* numerics/sqrt.py: newton_sqrt
\* ------------------------------------------------------------------------

\* A faulty variant of sqrt_special: negative inputs are not a special case.
sqrt_special_no_negative(x) ==
    IF FNe(x, x) THEN NAN
    ELSE IF FEq(x, Zero(FALSE)) THEN Zero(FALSE)
    ELSE IF FEq(x, INF) THEN INF
    ELSE Exc("None")

\* The special cases of lines 16-24; Exc("None") when none applies.
sqrt_special(x) ==
    IF FNe(x, x) THEN NAN
    ELSE IF FLt(x, Zero(FALSE)) THEN NAN
    ELSE IF FEq(x, Zero(FALSE)) THEN Zero(FALSE)
    ELSE IF FEq(x, INF) THEN INF
    ELSE Exc("None")

\* p // 2 (floor division).
FloorDiv2(p) == IF p >= 0 THEN p \div 2 ELSE -((1 - p) \div 2)

\* y = 2.0 ** (p // 2); if y == 0.0: y = 1.0
sqrt_guard(y) == IF FEq(y, Zero(FALSE)) THEN One ELSE y

\* Initial guess from the binary exponent.
sqrt_seed(x) == sqrt_guard(Pow2F(FloorDiv2(hex_exp(x))))

\* The convergence test on the update from prev to y, and the pass's outcome.
sqrt_test(prev, y, tol) ==
    IF IsExc(y) THEN Outcome("raise", y, NAN, NAN, NAN, NoErr)
    ELSE IF FLe(FAbs(FSub(y, prev)), FMul(tol, PyMax(One, y)))
    THEN Outcome("return", y, NAN, NAN, FSub(y, prev), NoErr)
    ELSE Outcome("continue", y, NAN, NAN, FSub(y, prev), NoErr)

\* One pass through the body of newton_sqrt's loop: prev = y;
\* y = 0.5 * (y + x / y).
sqrt_step(x, y, tol) == sqrt_test(y, FMul(Half, FAdd(y, FDiv(x, y))), tol)

\* A faulty variant of sqrt_exhausted: running out of passes is signalled.
sqrt_exhausted_raises(y) ==
    Outcome("raise", Exc("ConvergenceError"), NAN, NAN, NAN, NoErr)

\* The return after the loop: the last estimate.
sqrt_exhausted(y) == Outcome("return", y, NAN, NAN, NAN, NoErr)

RECURSIVE sqrt_run(_, _, _, _, _)
sqrt_next(x, n, tol, max_iter, s) ==
    IF s.kind = "continue" THEN sqrt_run(x, s.v, n + 1, tol, max_iter)
    ELSE s.v
sqrt_run(x, y, n, tol, max_iter) ==
    IF n >= max_iter THEN sqrt_exhausted(y).v
    ELSE sqrt_next(x, n, tol, max_iter, sqrt_step(x, y, tol))

\* The loop entered from the seed unless a special case returned first.
sqrt_from(x, sp, tol, max_iter) ==
    IF sp # Exc("None") THEN sp
    ELSE sqrt_run(x, sqrt_seed(x), 0, tol, max_iter)

newton_sqrt(x, tol, max_iter) == sqrt_from(x, sqrt_special(x), tol, max_iter)

SQRT_MAX_ITER == 100

\* sqrt as the hyperbolic functions import it: the default tol and max_iter.
sqrt(x) == IF IsExc(x) THEN x ELSE newton_sqrt(x, TOL_DEFAULT, SQRT_MAX_ITER)

\* ------------------------------------------------------------------------
\* numerics/stable.py: frexp
\* ------------------------------------------------------------------------

\* while mant >= 1.0: mant *= 0.5; bexp += 1
RECURSIVE frexp_down(_, _)
frexp_down(mant, bexp) ==
    IF FGe(mant, One) THEN frexp_down(FMul(mant, Half), bexp + 1)
    ELSE [m |-> mant, e |-> bexp]

\* while mant < 0.5: mant *= 2.0; bexp -= 1
RECURSIVE frexp_up(_, _)
frexp_up(mant, bexp) ==
    IF FLt(mant, Half) THEN frexp_up(FMul(mant, Two), bexp - 1)
    ELSE [m |-> mant, e |-> bexp]

\* m = sign * mant; return (m, bexp)
frexp_sign(x, u) ==
    [m |-> FMul(IF x.neg THEN FNeg(One) ELSE One, u.m), e |-> u.e]

\* The two normalising loops, one after the other.
frexp_norm(x, d) == frexp_sign(x, frexp_up(d.m, d.e))

\* From the parsed significand mant and exponent bexp on.
frexp_parsed(x, mant, bexp) ==
    IF FEq(mant, Zero(FALSE)) THEN [m |-> Zero(x.neg), e |-> 0]
    ELSE frexp_norm(x, frexp_down(mant, bexp))

\* (m, e) with x = m * 2**e and 0.5 <= |m| < 1; (x, 0) for NaN, +-Inf, +-0.
frexp(x) ==
    IF FNe(x, x) THEN [m |-> x, e |-> 0]
    ELSE IF FEq(x, INF) \/ FEq(x, NINF) THEN [m |-> x, e |-> 0]
    ELSE IF FEq(x, Zero(FALSE)) THEN [m |-> x, e |-> 0]
    ELSE frexp_parsed(x, hex_mant(x), hex_exp(x))

\* ------------------------------------------------------------------------
\* numerics/stable.py: gcd
\* ------------------------------------------------------------------------

\* A Python int: ty is "int" or "bool" (True is 1, False is 0), v its value.
py_int(ty, v) == [t |-> "int", ty |-> ty, v |-> v]

\* g % b of Python ints: the result has the sign of b.
py_mod(g, b) == IF b > 0 THEN g % b ELSE -((-g) % (-b))

\* A faulty variant of gcd_abs: the sign of the argument is kept.
gcd_abs_signed(x) == x

\* a = x if x >= 0 else -x
gcd_abs(x) == IF x.v >= 0 THEN x ELSE py_int("int", -x.v)

\* The outcome of gcd's loop: g, and the passes of the while loop it made.
GcdState(g, steps) == [g |-> g, steps |-> steps]

\* while b: g, b = b, g % b
RECURSIVE gcd_euclid(_, _, _)
gcd_euclid(g, b, steps) ==
    IF b.v = 0 THEN GcdState(g, steps)
    ELSE gcd_euclid(b, py_int("int", py_mod(g.v, b.v)), steps + 1)

\* for x in args: the body for the j-th argument, then the rest of the loop.
RECURSIVE gcd_loop(_, _, _)
gcd_body(args, j, s, a) ==
    IF a.v = 0 THEN gcd_loop(args, j + 1, s)
    ELSE IF s.g.v = 0 THEN gcd_loop(args, j + 1, GcdState(a, s.steps))
    ELSE gcd_loop(args, j + 1, gcd_euclid(s.g, a, s.steps))

gcd_loop(args, j, s) ==
    IF j > Len(args) THEN s
    ELSE IF args[j].t # "int" THEN GcdState(Exc("InvalidTypeError"), s.steps)
    ELSE gcd_body(args, j, s, gcd_abs(args[j]))

gcd_run(args) ==
    IF Len(args) = 0 THEN GcdState(Exc("InvalidValueError"), 0)
    ELSE gcd_loop(args, 1, GcdState(py_int("int", 0), 0))

gcd(args) == gcd_run(args).g

\* ------------------------------------------------------------------------
\* numerics/stable.py: ldexp
\* ------------------------------------------------------------------------

\* while n > 0: if n & 1: scale *= base; base *= base; n >>= 1
RECURSIVE ldexp_loop(_, _, _)
ldexp_loop(n, base, scale) ==
    IF n = 0 THEN scale
    ELSE ldexp_loop(n \div 2, FMul(base, base),
                    IF n % 2 = 1 THEN FMul(scale, base) ELSE scale)

\* A faulty variant of ldexp_scale: the exponent is taken one too small.
ldexp_scale_short(e) ==
    IF e >= 0 THEN ldexp_loop(e, Two, Half) ELSE ldexp_loop(-e, Half, Half)

\* n = e if e >= 0 else -e; base = 2.0 if e >= 0 else 0.5; scale = 1.0
ldexp_scale(e) ==
    IF e >= 0 THEN ldexp_loop(e, Two, One) ELSE ldexp_loop(-e, Half, One)

\* ldexp(m, e): m * 2**e by multiplications.
ldexp(m, e) ==
    IF FNe(m, m) \/ FEq(m, INF) \/ FEq(m, NINF) \/ FEq(m, Zero(FALSE)) THEN m
    ELSE FMul(m, ldexp_scale(e))

\* ldexp(*frexp(x)) from the pair p = frexp(x).
ldexp_of(p) == ldexp(p.m, p.e)

\* ------------------------------------------------------------------------
\* numerics/constants.py: pow2_int
\* ------------------------------------------------------------------------

DBL_MIN == Pow2F(DBL_MIN_EXP)              \* 2.0 ** -1022

\* while n: if (n & 1) != 0: y *= base; base *= base; n >>= 1
RECURSIVE pow2_loop(_, _, _)
pow2_loop(n, base, y) ==
    IF n = 0 THEN y
    ELSE pow2_loop(n \div 2, FMul(base, base),
                   IF n % 2 # 0 THEN FMul(y, base) ELSE y)

\* for _ in range(steps): y *= 0.5
RECURSIVE pow2_halve(_, _)
pow2_halve(steps, y) ==
    IF steps <= 0 \/ IsExc(y) THEN y ELSE pow2_halve(steps - 1, FMul(y, Half))

\* A faulty variant of pow2_int: no overflow test, the loop runs for every
\* k > 0.
pow2_int_unguarded(k) ==
    IF k = 0 THEN One
    ELSE IF k < -1074 THEN Zero(FALSE)
    ELSE IF k >= DBL_MIN_EXP
    THEN (IF k > 0 THEN pow2_loop(k, Two, One) ELSE pow2_loop(-k, Half, One))
    ELSE pow2_halve(-(k + 1022), DBL_MIN)

\* pow2_int(k): 2**k by multiplications.
pow2_int(k) ==
    IF k = 0 THEN One
    ELSE IF k > 1023 THEN Exc("NumericOverflowError")
    ELSE IF k < -1074 THEN Zero(FALSE)
    ELSE IF k >= DBL_MIN_EXP
    THEN (IF k > 0 THEN pow2_loop(k, Two, One) ELSE pow2_loop(-k, Half, One))
    ELSE pow2_halve(-(k + 1022), DBL_MIN)

\* ------------------------------------------------------------------------
\* numerics/log.py: log
\* ------------------------------------------------------------------------

\* The result of a library call: the value returned or the exception raised,
\* and the library functions the call invoked on the way.
R(v, calls) == [v |-> v, calls |-> calls]

LOG_MAX_ITER == 50

\* base=None
NoBase == Exc("None")

\* log_m_seed = t - 0.5 * t * t + (t * t * t) / 3.0; y0 = e * LN2 + log_m_seed
log_cubic(e, t) ==
    FAdd(FMul(FromInt(e), LN2),
         FAdd(FSub(t, FMul(FMul(Half, t), t)),
              FDiv(FMul(FMul(t, t), t), FromInt(3))))

\* m, e = frexp(x); t = m - 1.0
log_t(fr) == log_cubic(fr.e, FSub(fr.m, One))

\* The seed y0 of the Newton refinement of ln(x), finite x > 0.
log_seed(x) == log_t(frexp(x))

\* A faulty variant of log_ln: x == 1.0 is not a special case and goes to the
\* Newton refinement.
log_ln_no_one(x) ==
    IF FEq(x, INF) THEN R(INF, {})
    ELSE IF FLe(x, Zero(FALSE)) THEN R(Exc("InvalidValueError"), {})
    ELSE R(newton(Fn("expminus", x), Fn("exp", NAN), log_seed(x),
                  TOL_DEFAULT, LOG_MAX_ITER, FD_EPS_DEFAULT),
           {"frexp", "newton", "exp"})

\* ln_x of lines 68-97, for a non-NaN x.
log_ln(x) ==
    IF FEq(x, INF) THEN R(INF, {})
    ELSE IF FLe(x, Zero(FALSE)) THEN R(Exc("InvalidValueError"), {})
    ELSE IF FEq(x, One) THEN R(Zero(FALSE), {})
    ELSE R(newton(Fn("expminus", x), Fn("exp", NAN), log_seed(x),
                  TOL_DEFAULT, LOG_MAX_ITER, FD_EPS_DEFAULT),
           {"frexp", "newton", "exp"})

\* return ln_x / ln_base
log_ratio(ln_x, ln_base) ==
    R(FDiv(ln_x.v, ln_base.v), ln_x.calls \cup ln_base.calls \cup {"log"})

\* From ln_x on: the base, its validation and the division.
RECURSIVE log(_, _)
log_base(ln_x, base) ==
    IF IsExc(ln_x.v) THEN ln_x
    ELSE IF base = NoBase THEN ln_x
    ELSE IF FNe(base, base) THEN R(NAN, ln_x.calls)
    ELSE IF FLe(base, Zero(FALSE)) \/ FEq(base, One)
    THEN R(Exc("InvalidValueError"), ln_x.calls)
    ELSE log_ratio(ln_x, log(base, NoBase))

log(x, base) ==
    IF FNe(x, x) THEN R(NAN, {})
    ELSE log_base(log_ln(x), base)

\* ------------------------------------------------------------------------
\* numerics/hyper.py
\* ------------------------------------------------------------------------

\* The finiteness test of numerics/constants.py.
isfinite_f(x) == FEq(x, x) /\ FNe(x, INF) /\ FNe(x, NINF)

_isfinite(x) == FEq(x, x) /\ (FLt(NINF, x) /\ FLt(x, INF))

_abs(x) == IF FLt(x, Zero(FALSE)) THEN FNeg(x) ELSE x

SMALL_X == Lit(FALSE, 180143985, -54)      \* 1e-8
LARGE_X == FromInt(350)                    \* 350.0
TANH_SAT == FromInt(20)                    \* 20.0

\* 1.0 if x >= 0.0 else -1.0
sign_ge(x) == IF FGe(x, Zero(FALSE)) THEN One ELSE FNeg(One)
\* 1.0 if x > 0.0 else -1.0
sign_gt(x) == IF FGt(x, Zero(FALSE)) THEN One ELSE FNeg(One)
\* x if x > 0.0 else -x
abs_gt(x) == IF FGt(x, Zero(FALSE)) THEN x ELSE FNeg(x)

\* The overflow branch: ex = exp(|x|); sign(x) * 0.5 * ex unless ex is NaN or
\* Inf.
sinh_large(x, ex) ==
    IF FNe(ex, ex) \/ FEq(ex, INF)
    THEN R(FMul(sign_ge(x), INF), {"exp"})
    ELSE R(FMul(sign_ge(x), FMul(Half, ex)), {"exp"})

\* The general branch: ex = exp(x); 0.5 * (ex - 1.0 / ex).
sinh_mid(ex) == R(FMul(Half, FSub(ex, FDiv(One, ex))), {"exp"})

\* A faulty variant of sinh_of: the overflow branch drops the sign of x.
sinh_of_unsigned(x, ax) ==
    IF FLt(ax, SMALL_X) THEN R(x, {})
    ELSE IF FGt(ax, LARGE_X) THEN sinh_large(ax, exp(ax))
    ELSE sinh_mid(exp(x))

\* ax = _abs(x)
sinh_of(x, ax) ==
    IF FLt(ax, SMALL_X) THEN R(x, {})
    ELSE IF FGt(ax, LARGE_X) THEN sinh_large(x, exp(ax))
    ELSE sinh_mid(exp(x))

\* A faulty variant of sinh: the non-finite inputs are not screened.
sinh_unchecked(x) == sinh_of(x, _abs(x))

sinh(x) == IF ~_isfinite(x) THEN R(NAN, {}) ELSE sinh_of(x, _abs(x))

cosh_large(ex) ==
    IF FNe(ex, ex) \/ FEq(ex, INF)
    THEN R(INF, {"exp"})
    ELSE R(FMul(Half, ex), {"exp"})

cosh_mid(ex) == R(FMul(Half, FAdd(ex, FDiv(One, ex))), {"exp"})

\* ax = _abs(x)
cosh_of(x, ax) ==
    IF FLt(ax, SMALL_X) THEN R(FAdd(One, FMul(FMul(Half, x), x)), {})
    ELSE IF FGt(ax, LARGE_X) THEN cosh_large(exp(ax))
    ELSE cosh_mid(exp(x))

cosh(x) == IF ~_isfinite(x) THEN R(NAN, {}) ELSE cosh_of(x, _abs(x))

\* t = (e2a - 1.0) / (e2a + 1.0); return s * t
tanh_ratio(s, e2a) ==
    R(FMul(s, FDiv(FSub(e2a, One), FAdd(e2a, One))), {"exp"})

\* A faulty variant of tanh_of: no saturation for a large magnitude.
tanh_of_no_saturation(s, a) == tanh_ratio(s, exp(FMul(Two, a)))

\* s = sign(x), a = |x|
tanh_of(s, a) ==
    IF FGt(a, TANH_SAT) THEN R(FMul(s, One), {})
    ELSE tanh_ratio(s, exp(FMul(Two, a)))

tanh(x) ==
    IF ~isfinite_f(x) THEN R(NAN, {})
    ELSE IF FEq(x, Zero(FALSE)) THEN R(x, {})
    ELSE tanh_of(sign_gt(x), abs_gt(x))

\* s * log(...)
asinh_sign(s, lg) == R(FMul(s, lg.v), {"sqrt", "log"} \cup lg.calls)

asinh_log(s, ax, rt) ==
    IF IsExc(rt) THEN R(rt, {"sqrt"})
    ELSE asinh_sign(s, log(FAdd(ax, rt), NoBase))

\* sq = ax**2 + 1
asinh_sqrt(s, ax, sq) ==
    IF IsExc(sq) THEN R(sq, {}) ELSE asinh_log(s, ax, sqrt(sq))

\* s = sign(x), ax = |x|
asinh_of(s, ax) == asinh_sqrt(s, ax, FAdd(FSquare(ax), FromInt(1)))

asinh(x) ==
    IF ~isfinite_f(x) THEN R(NAN, {})
    ELSE IF FEq(x, Zero(FALSE)) THEN R(x, {})
    ELSE asinh_of(sign_gt(x), abs_gt(x))

acosh_ret(lg) == R(lg.v, {"sqrt", "log"} \cup lg.calls)

\* t = sqrt((x - 1.0) * (x + 1.0)); return log(x + t)
acosh_log(x, t) ==
    IF IsExc(t) THEN R(t, {"sqrt"})
    ELSE acosh_ret(log(FAdd(x, t), NoBase))
\* A faulty variant of acosh: the inputs below 1 are not screened.
acosh_no_domain(x) ==
    IF ~isfinite_f(x) THEN R(NAN, {})
    ELSE IF FEq(x, One) THEN R(Zero(FALSE), {})
    ELSE acosh_log(x, sqrt(FMul(FSub(x, One), FAdd(x, One))))


acosh(x) ==
    IF ~isfinite_f(x) THEN R(NAN, {})
    ELSE IF FLt(x, One) THEN R(NAN, {})
    ELSE IF FEq(x, One) THEN R(Zero(FALSE), {})
    ELSE acosh_log(x, sqrt(FMul(FSub(x, One), FAdd(x, One))))

\* s * 0.5 * log(...)
atanh_half(s, lg) == R(FMul(FMul(s, Half), lg.v), {"log"} \cup lg.calls)

atanh_log(s, q) ==
    IF IsExc(q) THEN R(q, {}) ELSE atanh_half(s, log(q, NoBase))

\* s = sign(x), ax = |x|: q = (1.0 + ax) / (1.0 - ax)
atanh_of(s, ax) == atanh_log(s, FDiv(FAdd(One, ax), FSub(One, ax)))

atanh(x) ==
    IF ~isfinite_f(x) THEN R(NAN, {})
    ELSE IF ~(FLt(FNeg(One), x) /\ FLt(x, One)) THEN R(NAN, {})
    ELSE IF FEq(x, Zero(FALSE)) THEN R(x, {})
    ELSE atanh_of(sign_gt(x), abs_gt(x))

\* ------------------------------------------------------------------------
\* numerics/trig_pure.py
\* ------------------------------------------------------------------------

PI2_HI == Lit(FALSE, 843314857, -29)       \* 1.5707963267948966
PI2_MID == Lit(FALSE, 743975723, -85)      \* 1.9231321691639753e-17
PI2_LO == Lit(TRUE, 271424707, -137)       \* -1.5579014153003124e-33
INV_PI_2_HI == Lit(FALSE, 170891319, -28)  \* 0.6366197723675814
INV_PI_2_LO == Lit(TRUE, 137634911, -81)   \* -5.692446494650995e-17
PI4_HI == FMul(PI2_HI, Half)
PI4_MID == FMul(PI2_MID, Half)
PI4_LO == FMul(PI2_LO, Half)
C_SPLIT == Lit(FALSE, 134217729, 0)        \* 134217729.0, 2**27 + 1

\* A pair of floats: a value and its error term, or the high and low part of
\* a double-double.
DD(h, l) == [h |-> h, l |-> l]

\* ah = c - (c - a); al = a - ah
split_lo(a, ah) == DD(ah, FSub(a, ah))
split_hi(a, c) == split_lo(a, FSub(c, FSub(c, a)))
_split(a) == split_hi(a, FMul(C_SPLIT, a))

\* s = a + b; bp = s - a; e = (a - (s - bp)) + (b - bp)
two_sum_e(a, b, s, bp) == DD(s, FAdd(FSub(a, FSub(s, bp)), FSub(b, bp)))
two_sum_bp(a, b, s) == two_sum_e(a, b, s, FSub(s, a))
_two_sum(a, b) == two_sum_bp(a, b, FAdd(a, b))

\* err = ((ah * bh - p) + ah * bl + al * bh) + al * bl
two_prod_err(p, A, B) ==
    DD(p, FAdd(FAdd(FAdd(FSub(FMul(A.h, B.h), p), FMul(A.h, B.l)),
                    FMul(A.l, B.h)),
               FMul(A.l, B.l)))
_two_prod(a, b) == two_prod_err(FMul(a, b), _split(a), _split(b))

\* q0 = n / d; r = (n - p) - pe; q = q0 + r / d, with (p, pe) the exact
\* product q0 * d.
div_fix(n, d, q0, P) == FAdd(q0, FDiv(FSub(FSub(n, P.h), P.l), d))
div_pass(n, d, q0) == div_fix(n, d, q0, _two_prod(q0, d))
_compensated_div(n, d) == div_pass(n, d, div_pass(n, d, FDiv(n, d)))

_dd_norm(h, l) == _two_sum(h, l)

\* s, e = _two_sum(a_hi, a_mid); h, t = _two_sum(s, a_lo);
\* return _dd_norm(h, e + t)
dd_three_norm(SE, HT) == _dd_norm(HT.h, FAdd(SE.l, HT.l))
dd_three_lo(SE, a_lo) == dd_three_norm(SE, _two_sum(SE.h, a_lo))
_dd_from_three(a_hi, a_mid, a_lo) == dd_three_lo(_two_sum(a_hi, a_mid), a_lo)

PI4_DD == _dd_from_three(PI4_HI, PI4_MID, PI4_LO)
PI4_H == PI4_DD.h
PI4_L == PI4_DD.l

_is_finite(x) == IF FNe(x, x) THEN FALSE ELSE ~(FEq(x, INF) \/ FEq(x, NINF))

\* A Python int k as the code uses it: its float value and its residue
\* modulo 4 (k & 3, and k & 1 as the residue's parity).
IntK(f, r) == [t |-> "int", f |-> f, r |-> r]

\* |int(y)| % 4 for a finite y.
TruncMod4(y) ==
    IF y.e >= 2 THEN 0
    ELSE IF y.e >= 0 THEN (y.m * Pow2(y.e)) % 4
    ELSE TruncMag(y) % 4

\* float(int(y)) for a finite y.
TruncF(y) == IF y.e >= 0 /\ y.m # 0 THEN y ELSE FromInt(TruncInt(y))

\* int(y): ValueError for a NaN and OverflowError for an infinity.
PyInt(y) ==
    IF IsExc(y) THEN y
    ELSE IF IsNaN(y) THEN Exc("ValueError")
    ELSE IF IsInf(y) THEN Exc("OverflowError")
    ELSE IntK(TruncF(y), IF y.neg THEN (4 - TruncMod4(y)) % 4 ELSE TruncMod4(y))

\* k + d for a Python int k and d in {-1, 1}
IntAdd(k, d) == IntK(FAdd(k.f, FromInt(d)), (k.r + d) % 4)

\* frac = y - k: the adjustment of k = int(y) to the nearest integer, ties
\* to even.
round_adjust(y, k, frac) ==
    IF FGe(y, Zero(FALSE))
    THEN (IF FGt(frac, Half) \/ (FEq(frac, Half) /\ k.r % 2 = 1)
          THEN IntAdd(k, 1) ELSE k)
    ELSE (IF FLt(frac, FNeg(Half)) \/ (FEq(frac, FNeg(Half)) /\ k.r % 2 = 1)
          THEN IntAdd(k, -1) ELSE k)

round_frac(y, k) ==
    IF k.t # "int" THEN k ELSE round_adjust(y, k, FSub(y, k.f))

_round_half_even(y) == round_frac(y, PyInt(y))

\* s, e = _two_sum(a_hi, -b_hi); t, f = _two_sum(a_lo, -b_lo);
\* return _two_sum(s, t + f)
dd_sub_tf(S, T) == _two_sum(S.h, FAdd(T.h, T.l))
_dd_sub(a_hi, a_lo, b_hi, b_lo) ==
    dd_sub_tf(_two_sum(a_hi, FNeg(b_hi)), _two_sum(a_lo, FNeg(b_lo)))

\* tail = e0 + e1 + e2 + sign * PI2_LO; return _dd_norm(s2, tail)
add_pi2_tail(S0, S1, S2, sign) ==
    _dd_norm(S2.h, FAdd(FAdd(FAdd(S0.l, S1.l), S2.l),
                        FMul(FromInt(sign), PI2_LO)))
add_pi2_sum(S0, S1, sign) == add_pi2_tail(S0, S1, _two_sum(S0.h, S1.h), sign)
_dd_add_pi2(r_hi, r_lo, sign) ==
    add_pi2_sum(_two_sum(r_hi, FMul(FromInt(sign), PI2_HI)),
                _two_sum(r_lo, FMul(FromInt(sign), PI2_MID)), sign)

\* y = x * (2 / pi) as a double-double (yh, yl)
reduce_y_norm(ST, YU) == _dd_norm(YU.h, FAdd(ST.l, YU.l))
reduce_y_e(ST, e) == reduce_y_norm(ST, _two_sum(ST.h, e))
reduce_y_sum(P1, P2) == reduce_y_e(_two_sum(P1.h, P2.h), FAdd(P1.l, P2.l))
reduce_y(x) ==
    reduce_y_sum(_two_prod(x, INV_PI_2_HI), _two_prod(x, INV_PI_2_LO))

\* k = _round_half_even(yh + yl)
reduce_k_of(Y) == _round_half_even(FAdd(Y.h, Y.l))
reduce_k(x) == reduce_k_of(reduce_y(x))

\* r, re = _two_sum(r, -p); err += (-pe) + re, for (p, pe) one of the three
\* products of kh with the parts of pi/2; A holds (r, err).
sub_re(P, S) == FAdd(FNeg(P.l), S.l)
sub_first_sum(P, S) == DD(S.h, sub_re(P, S))
sub_first(x, P) == sub_first_sum(P, _two_sum(x, FNeg(P.h)))
sub_next_sum(A, P, S) == DD(S.h, FAdd(A.l, sub_re(P, S)))
sub_next(A, P) == sub_next_sum(A, P, _two_sum(A.h, FNeg(P.h)))

\* r_hi, r_lo = _two_sum(r, err)
reduce_r_pair(A) == _two_sum(A.h, A.l)
reduce_r(x, kh) ==
    reduce_r_pair(sub_next(sub_next(sub_first(x, _two_prod(kh, PI2_HI)),
                                    _two_prod(kh, PI2_MID)),
                           _two_prod(kh, PI2_LO)))

\* The reduction in progress: the integer k and the remainder (r_hi, r_lo).
Red(k, rem) == [k |-> k, rem |-> rem]

\* d_hi > 0.0 or (d_hi == 0.0 and d_lo > 0.0)
dd_pos(D) ==
    FGt(D.h, Zero(FALSE)) \/ (FEq(D.h, Zero(FALSE)) /\ FGt(D.l, Zero(FALSE)))
\* r > pi/4, and -r > pi/4
above(D) == dd_pos(_dd_sub(D.h, D.l, PI4_H, PI4_L))
below(D) == dd_pos(_dd_sub(FNeg(D.h), FNeg(D.l), PI4_H, PI4_L))

\* k += 1; r_hi, r_lo = _dd_add_pi2(r_hi, r_lo, -1)
correct_up(A) == Red(IntAdd(A.k, 1), _dd_add_pi2(A.rem.h, A.rem.l, -1))
\* k -= 1; r_hi, r_lo = _dd_add_pi2(r_hi, r_lo, +1)
correct_down(A) == Red(IntAdd(A.k, -1), _dd_add_pi2(A.rem.h, A.rem.l, 1))

\* The second correction of a direction.
correct_up_again(A) == IF above(A.rem) THEN correct_up(A) ELSE A
correct_down_again(A) == IF below(A.rem) THEN correct_down(A) ELSE A

\* The post-correction of the remainder towards [-pi/4, pi/4].
correct(A) ==
    IF above(A.rem) THEN correct_up_again(correct_up(A))
    ELSE IF below(A.rem) THEN correct_down_again(correct_down(A))
    ELSE A

\* The post-correction applied to an integer k and a remainder (r_hi, r_lo):
\* the corrected k and remainder.
Corrected(A) ==
    [t |-> "red", k |-> TruncInt(A.k.f), q |-> A.k.r, h |-> A.rem.h,
     l |-> A.rem.l]
correct_from(k, rd) ==
    Corrected(correct(Red(IntK(FromInt(k), k % 4), DD(rd.h, rd.l))))

\* q = k & 3; return q, r_hi, r_lo
reduce_out(A) == [t |-> "red", q |-> A.k.r, h |-> A.rem.h, l |-> A.rem.l]

reduce_from(x, k) ==
    IF k.t # "int" THEN k
    ELSE reduce_out(correct(Red(k, reduce_r(x, k.f))))

_reduce_pi2(x) == reduce_from(x, reduce_k(x))

\* The coefficients of the sine kernel, _S7 first (the order of Horner's rule).
_S1 == Lit(TRUE, 715827883, -32)           \* -1.66666666666666666666666666667e-01
_S2 == Lit(FALSE, 286331153, -35)          \*  8.33333333333333333333333333333e-03
_S3 == Lit(TRUE, 218157069, -40)           \* -1.98412698412698412698412698413e-04
_S4 == Lit(FALSE, 775669579, -48)          \*  2.75573192239858906525573192240e-06
_S5 == Lit(TRUE, 56412333, -51)            \* -2.50521083854417187750521083854e-08
_S6 == Lit(FALSE, 740592679, -62)          \*  1.60590438368216145993923771702e-10
_S7 == Lit(TRUE, 451408871, -69)           \* -7.64716373181981647590113198579e-13

\* The coefficients of the cosine kernel.
_C1 == Lit(TRUE, 1, -1)                    \* -5.00000000000000000000000000000e-01
_C2 == Lit(FALSE, 715827883, -34)          \*  4.16666666666666666666666666667e-02
_C3 == Lit(TRUE, 381774871, -38)           \* -1.38888888888888888888888888889e-03
_C4 == Lit(FALSE, 218157069, -43)          \*  2.48015873015873015873015873016e-05
_C5 == Lit(TRUE, 620535663, -51)           \* -2.75573192239858906525573192240e-07
_C6 == Lit(FALSE, 18804111, -53)           \*  2.08767569878680989792100903212e-09
_C7 == Lit(TRUE, 423195817, -65)           \* -1.14707455977297247138516979787e-11
_C8 == Lit(FALSE, 451408871, -73)          \*  4.77947733238738529743820749112e-14

\* ((c1 * z + c2) * z + ...) * z + cn for the coefficients cs = <<c1, ..., cn>>,
\* evaluated from the innermost parenthesis outwards.
RECURSIVE horner(_, _, _, _)
horner(cs, j, z, acc) ==
    IF j > Len(cs) THEN acc ELSE horner(cs, j + 1, z, FAdd(FMul(acc, z), cs[j]))

\* z = r * r; p = (((_S7 * z + _S6) * z + ...) * z + _S1); return r + r * z * p
sin_kernel_p(r, z, p) == FAdd(r, FMul(FMul(r, z), p))
sin_kernel_z(r, z) ==
    sin_kernel_p(r, z, horner(<<_S6, _S5, _S4, _S3, _S2, _S1>>, 1, z, _S7))
_sin_kernel(r) == sin_kernel_z(r, FMul(r, r))

\* z = r * r; p = (((_C8 * z + _C7) * z + ...) * z + _C1); return 1.0 + z * p
cos_kernel_z(z) ==
    FAdd(One, FMul(z, horner(<<_C7, _C6, _C5, _C4, _C3, _C2, _C1>>, 1, z, _C8)))
_cos_kernel(r) == cos_kernel_z(FMul(r, r))

\* A pair (sin, cos).
SC(s, c) == [s |-> s, c |-> c]

\* sb = b - (1.0 / 6.0) * b3 + (1.0 / 120.0) * b5
sin_b(b, b3, b5) ==
    FAdd(FSub(b, FMul(FDiv(One, FromInt(6)), b3)),
         FMul(FDiv(One, FromInt(120)), b5))
\* cb = 1.0 - 0.5 * b2 + (1.0 / 24.0) * b4
cos_b(b2, b4) ==
    FAdd(FSub(One, FMul(Half, b2)), FMul(FDiv(One, FromInt(24)), b4))

\* s = s0 * cb + c0 * sb; c = c0 * cb - s0 * sb
sin_cos_mix(s0, c0, sb, cb) ==
    SC(FAdd(FMul(s0, cb), FMul(c0, sb)), FSub(FMul(c0, cb), FMul(s0, sb)))
sin_cos_b4(s0, c0, b, b2, b4) ==
    sin_cos_mix(s0, c0, sin_b(b, FMul(b2, b), FMul(b4, b)), cos_b(b2, b4))
sin_cos_b2(s0, c0, b, b2) == sin_cos_b4(s0, c0, b, b2, FMul(b2, b2))
sin_cos_b(s0, c0, b) ==
    IF FEq(b, Zero(FALSE)) THEN SC(s0, c0)
    ELSE sin_cos_b2(s0, c0, b, FMul(b, b))
_sin_cos_dd(r_hi, r_lo) ==
    sin_cos_b(_sin_kernel(r_hi), _cos_kernel(r_hi), r_lo)

\* -9.094947017729282e-13 < r_sum < 9.094947017729282e-13
STICKY == Lit(FALSE, 1, -40)
sticky(r_sum) == FLt(FNeg(STICKY), r_sum) /\ FLt(r_sum, STICKY)

\* A faulty variant of sin_quadrant: the sign of quadrant 3 is lost.
sin_quadrant_unsigned(q, P) ==
    IF q = 0 THEN P.s ELSE IF q = 1 THEN P.c
    ELSE IF q = 2 THEN FNeg(P.s) ELSE P.c

\* The quadrant tables of sin and cos.
sin_quadrant(q, P) ==
    IF q = 0 THEN P.s ELSE IF q = 1 THEN P.c
    ELSE IF q = 2 THEN FNeg(P.s) ELSE FNeg(P.c)
cos_quadrant(q, P) ==
    IF q = 0 THEN P.c ELSE IF q = 1 THEN FNeg(P.s)
    ELSE IF q = 2 THEN FNeg(P.c) ELSE P.s

\* s, c of the reduced argument: (r_sum, 1.0) in the sticky branch.
sin_cos_sum(rd, r_sum) ==
    IF sticky(r_sum) THEN SC(r_sum, One) ELSE _sin_cos_dd(rd.h, rd.l)
sin_cos_of(rd) == sin_cos_sum(rd, FAdd(rd.h, rd.l))

sin_reduced(rd) ==
    IF rd.t # "red" THEN rd ELSE sin_quadrant(rd.q, sin_cos_of(rd))

\* A faulty variant of sin: the argument is reduced without the test.
sin_unguarded(x) == sin_reduced(_reduce_pi2(x))

sin(x) == IF ~_is_finite(x) THEN NAN ELSE sin_reduced(_reduce_pi2(x))

cos_reduced(rd) ==
    IF rd.t # "red" THEN rd ELSE cos_quadrant(rd.q, sin_cos_of(rd))
cos(x) == IF ~_is_finite(x) THEN NAN ELSE cos_reduced(_reduce_pi2(x))

\* -v of a value, when _compensated_div returned one.
neg_value(v) == IF IsExc(v) THEN v ELSE FNeg(v)

\* The quotient tan forms from (s, c) in quadrant q, before any division:
\* s / c in quadrants 0 and 2, c / s (negated afterwards) in quadrants 1 and 3.
tan_numerator(q, P) == IF q \in {0, 2} THEN P.s ELSE P.c
tan_denominator(q, P) == IF q \in {0, 2} THEN P.c ELSE P.s

\* tan with the pole guard of trig.py's _tan_highprec (if c == 0.0: return NAN),
\* which trig_pure.py does not have.
tan_quotient_guarded(q, P) ==
    IF FEq(tan_denominator(q, P), Zero(FALSE)) THEN NAN
    ELSE IF q \in {0, 2} THEN _compensated_div(P.s, P.c)
    ELSE neg_value(_compensated_div(P.c, P.s))

\* if q == 0 or q == 2: return _compensated_div(s, c)
\* else: return -_compensated_div(c, s)
tan_quotient(q, P) ==
    IF q \in {0, 2} THEN _compensated_div(P.s, P.c)
    ELSE neg_value(_compensated_div(P.c, P.s))

tan_reduced(rd) ==
    IF rd.t # "red" THEN rd
    ELSE tan_quotient(rd.q, _sin_cos_dd(rd.h, rd.l))
tan(x) == IF ~_is_finite(x) THEN NAN ELSE tan_reduced(_reduce_pi2(x))

\* ------------------------------------------------------------------------
\* numerics/rounding.py: round_even
\* ------------------------------------------------------------------------

\* A faulty variant of round_even_adjust: the adjustment of
\* round_half_away_from_zero, where a half always moves away from zero.
round_away_adjust(x, i, frac) ==
    IF FGe(x, Zero(FALSE))
    THEN (IF FGe(frac, Half) THEN IntAdd(i, 1) ELSE i)
    ELSE (IF FLe(frac, FNeg(Half)) THEN IntAdd(i, -1) ELSE i)

\* The if statement of round_even on i = int(x) and frac = x - i.
round_even_adjust(x, i, frac) ==
    IF FGe(x, Zero(FALSE))
    THEN (IF FGt(frac, Half) \/ (FEq(frac, Half) /\ i.r % 2 # 0)
          THEN IntAdd(i, 1) ELSE i)
    ELSE (IF FLt(frac, FNeg(Half)) \/ (FEq(frac, FNeg(Half)) /\ i.r % 2 # 0)
          THEN IntAdd(i, -1) ELSE i)

round_even_frac(x, i) ==
    IF i.t # "int" THEN i ELSE round_even_adjust(x, i, FSub(x, i.f))

round_even(x) == round_even_frac(x, PyInt(x))

\* ------------------------------------------------------------------------
\* numerics/trig.py: the Chebyshev series and their coefficient lists
\* ------------------------------------------------------------------------

\* The module-level lists _A_SIN_ODD and _A_COS_EVEN as the module creates
\* them.
SIN_ODD_COEFFS ==
    <<
       Lit(FALSE, 611206795, -30),  \* 5.69230686359505514690621199372e-1,
       Lit(TRUE, 179024081, -28),   \* -6.66916672405979070780437163480e-1,
       Lit(FALSE, 895778727, -33),  \* 1.04282368734236949480920252186e-1,
       Lit(TRUE, 470084757, -36),   \* -6.84063353699157900985137450329e-3,
       Lit(FALSE, 274885477, -40),  \* 2.50006884950386227652215859008e-4,
       Lit(TRUE, 823349253, -47),   \* -5.85024830863914369171711619397e-6,
       Lit(FALSE, 214703995, -51),  \* 9.53477275029940114004406775030e-8,
       Lit(TRUE, 330207799, -58),   \* -1.14563844170946315134756461815e-9,
       Lit(FALSE, 780243603, -66),  \* 1.05742726175391285886989821647e-11,
       Lit(TRUE, 365287845, -72),   \* -7.73527099540430709415664628627e-14,
       Lit(FALSE, 555617005, -80),  \* 4.59595614618295945919569164343e-16,
       Lit(TRUE, 175037443, -86),   \* -2.26230592819741110431266043618e-18,
       Lit(FALSE, 185743451, -94)   \* 9.37764779915313579625162444174e-21
    >>

COS_EVEN_COEFFS ==
    <<
       Lit(TRUE, 326677551, -30),   \* -3.04242177644093864202034912818e-1,
       Lit(TRUE, 1042461433, -30),  \* -9.70867865263018219410991432366e-1,
       Lit(FALSE, 650363609, -31),  \* 3.02849155262699421507419118631e-1,
       Lit(TRUE, 124948905, -32),   \* -2.90919339650111211473207392080e-2,
       Lit(FALSE, 191348557, -37),  \* 1.39224399117623185998462220895e-3,
       Lit(TRUE, 707028981, -44),   \* -4.01899445107549429881652623637e-5,
       Lit(FALSE, 876261665, -50),  \* 7.78276701181530608857305789695e-7,
       Lit(TRUE, 24379179, -51),    \* -1.08265303418582848109342149268e-8,
       Lit(FALSE, 1046953425, -63), \* 1.13510917791150770103019401952e-10,
       Lit(TRUE, 274348733, -68),   \* -9.29529663267875655288541008453e-13,
       Lit(FALSE, 923523245, -77),  \* 6.11136418833476772380622907668e-15,
       Lit(TRUE, 637859793, -84),   \* -3.29765784134345898638243555411e-17,
       Lit(FALSE, 736234347, -92),  \* 1.48681342367320770479543710935e-19,
       Lit(TRUE, 360366327, -99),   \* -5.68557813684716435376105402637e-22,
       Lit(FALSE, 606012639, -108), \* 1.86742062104768142592220173020e-24,
       Lit(TRUE, 884841619, -117),  \* -5.32544678353978417005705767787e-27,
       Lit(FALSE, 566155699, -125), \* 1.33102565167121694216809032100e-29,
       Lit(TRUE, 20006175, -129),   \* -2.93964321349350579748495535843e-32,
       Lit(FALSE, 322168257, -142), \* 5.77860971039493827501269009893e-35,
       Lit(TRUE, 580932995, -152),  \* -1.01757564166906268062520133550e-37,
       Lit(FALSE, 943809797, -162)  \* 1.61445217148946221306633275540e-40
    >>

\* for ck in reversed(c_full[1:]): b0 = 2.0 * y * b1 - b2 + ck; b2, b1 = b1, b0
\* and then return y * b1 - b2 + c_full[0].  c is c_full, j the 1-based
\* position of ck.
RECURSIVE clenshaw_loop(_, _, _, _, _)
clenshaw_loop(y, c, j, b1, b2) ==
    IF j < 2 \/ IsExc(b1) THEN FAdd(FSub(FMul(y, b1), b2), c[1])
    ELSE clenshaw_loop(y, c, j - 1,
                       FAdd(FSub(FMul(FMul(Two, y), b1), b2), c[j]), b1)

_clenshaw_T(y, c_full) ==
    IF Len(c_full) = 0 THEN Zero(FALSE)
    ELSE clenshaw_loop(y, c_full, Len(c_full), Zero(FALSE), Zero(FALSE))

\* c_full = [0.0] * (2 * len(A) + 2); c_full[2 * k + 1] = ak
sin_c_full(A) ==
    [j \in 1..(2 * Len(A) + 2) |->
        IF j % 2 = 0 /\ j \div 2 <= Len(A) THEN A[j \div 2] ELSE Zero(FALSE)]

\* c_full = [0.0] * (2 * len(A) + 1); c_full[0] = A[0]; c_full[2 * k] = ak
cos_c_full(A) ==
    [j \in 1..(2 * Len(A) + 1) |->
        IF j % 2 = 1 /\ (j + 1) \div 2 <= Len(A) THEN A[(j + 1) \div 2]
        ELSE Zero(FALSE)]

\* The series from the list A the module holds at the time of the call.
sin_series_from(y, A) == _clenshaw_T(y, sin_c_full(A))
cos_series_from(y, A) == _clenshaw_T(y, cos_c_full(A))

\* ---------------------------------------------------------------------------
\* The library in use: a caller makes one call at a time.  newton and
\* newton_sqrt run their loops one pass per step; the other functions are
\* straight-line code and complete in the step that calls them.
\* ---------------------------------------------------------------------------
VARIABLES pc, fn, arg, cur, i, n, seeded, last, ret, calls,
          _BACKENDS, _CURRENT, set_ret, last_set,
          _A_SIN_ODD, _A_COS_EVEN, t2

vars == <<pc, fn, arg, cur, i, n, seeded, last, ret, calls,
          _BACKENDS, _CURRENT, set_ret, last_set,
          _A_SIN_ODD, _A_COS_EVEN, t2>>

\* What a call of a core function works on, and the process-wide state of
\* numerics/_backend.py with the record of the set_backend calls made.
call_vars == <<pc, fn, arg, cur, i, n, seeded, last, ret, calls>>
backend_vars == <<_BACKENDS, _CURRENT, set_ret, last_set>>
\* The coefficient lists of numerics/trig.py, and a second caller.
table_vars == <<_A_SIN_ODD, _A_COS_EVEN>>

\* ------------------------------------------------------------------------
\* numerics/_backend.py
\* ------------------------------------------------------------------------

SystemTrigBackend == [name |-> "system"]
PureTrigBackend == [name |-> "pure"]

\* The names a caller passes to set_backend.
BackendNames == {"system", "pure", "numpy", "PURE"}

\* What set_backend(name) leaves: the registry, the active backend and the
\* exception raised ("None" when it returns).
SetResult(B, C, raised) == [B |-> B, C |-> C, raised |-> raised]

\* _BACKENDS["pure"] = PureTrigBackend()
register_pure(B) ==
    [k \in DOMAIN B \cup {"pure"} |->
        IF k = "pure" THEN PureTrigBackend ELSE B[k]]

\* A faulty variant of set_backend: an unknown name is made active without
\* being registered.
set_backend_any(name) ==
    IF name \in DOMAIN _BACKENDS
    THEN SetResult(_BACKENDS, _BACKENDS[name], "None")
    ELSE IF name = "pure"
    THEN SetResult(register_pure(_BACKENDS), PureTrigBackend, "None")
    ELSE SetResult(_BACKENDS, [name |-> name], "None")

\* A faulty variant of set_backend: a failing call falls back to the system
\* backend before it raises.
set_backend_fallback(name) ==
    IF name \in DOMAIN _BACKENDS
    THEN SetResult(_BACKENDS, _BACKENDS[name], "None")
    ELSE IF name = "pure"
    THEN SetResult(register_pure(_BACKENDS), register_pure(_BACKENDS)["pure"],
                   "None")
    ELSE SetResult(_BACKENDS, _BACKENDS["system"], "ValueError")

set_backend(name) ==
    IF name \in DOMAIN _BACKENDS
    THEN SetResult(_BACKENDS, _BACKENDS[name], "None")
    ELSE IF name = "pure"
    THEN SetResult(register_pure(_BACKENDS), register_pure(_BACKENDS)["pure"],
                   "None")
    ELSE SetResult(_BACKENDS, _CURRENT, "ValueError")

get_backend == _CURRENT

get_backend_name == _CURRENT.name

NoSet == [name |-> "", raised |-> "none"]

\* Largest max_iter passed to newton and newton_sqrt by the caller.
MaxIter == 3
\* The caller's arguments include the integers -MaxInt..MaxInt and their
\* quarters.
MaxInt == 4

MaxFinite == Fin(FALSE, Pow2(Prec) - 1, UHi)
MinSub == Fin(FALSE, 1, ULo)
BigF == Pow2F(600)
TinyF == Pow2F(-600)
\* The neighbour of a positive normal value, one unit in the last place up.
NextUp(a) == Round(a.neg, 2 * a.m + 2, a.e - 1, FALSE)

Specials == {NAN, INF, NINF, Zero(FALSE), Zero(TRUE)}
Grid == {FromInt(k) : k \in -MaxInt..MaxInt}
          \cup {FDiv(FromInt(k), FromInt(4)) : k \in -MaxInt..MaxInt}
Extremes ==
    LET pos == {BigF, TinyF, MaxFinite, MinSub, MAX_LOG, NextUp(MAX_LOG),
                FNeg(MIN_LOG), NextUp(FNeg(MIN_LOG)), FromInt(21),
                FromInt(351), FromInt(700), Lit(FALSE, 1, -30),
                TANH_SAT, NextUp(TANH_SAT)}
    IN pos \cup {FNeg(a) : a \in pos}
Floats == Specials \cup Grid \cup Extremes

Functions == {Fn("linear", Two), Fn("quad", NAN), Fn("expminus", Two),
              Fn("const", One)}
Derivatives == {None, Fn("const", One), Fn("const", Zero(FALSE)),
                Fn("const", TinyF), Fn("quadprime", NAN), Fn("exp", NAN)}
Starts == {FromInt(k) : k \in -1..MaxInt} \cup {Half, NAN, BigF}
Tols == {TOL_DEFAULT, Half, Zero(FALSE)}
FdEps == {FD_EPS_DEFAULT, Zero(FALSE)}
Bases == {NoBase, Two, FromInt(10), Half, One, Zero(FALSE), Zero(TRUE),
          FromInt(-2), NAN, INF, NINF}

NoArg == [x |-> NAN, base |-> NoBase, f |-> None, fprime |-> None,
          tol |-> NAN, max_iter |-> 0, fd_eps |-> NAN, d |-> NAN, k |-> 0,
          args |-> <<>>, rd |-> [t |-> "red", q |-> 0, h |-> NAN, l |-> NAN]]
NoStep == Outcome("none", NAN, NAN, NAN, NAN, NoErr)
NoRet == [kind |-> "none", v |-> NAN, err |-> NoErr]
Returned(v) == [kind |-> "return", v |-> v, err |-> NoErr]
Raised(e, err) == [kind |-> "raise", v |-> e, err |-> err]
\* What the caller sees of a value-or-exception result.
Result(v) ==
    IF v.t \in {"fin", "inf", "nan", "int", "red"} THEN Returned(v)
    ELSE Raised(v, NoErr)

\* _sin_series_cheb(y) and _cos_series_cheb(y): c_full is built afresh from the
\* module's list on every call.
_sin_series_cheb(y) == sin_series_from(y, _A_SIN_ODD)
_cos_series_cheb(y) == cos_series_from(y, _A_COS_EVEN)

\* The second caller: its position, its newton_sqrt call and the loop state.
Caller2(p, x, tol, max_iter, c, j, r) ==
    [pc |-> p, x |-> x, tol |-> tol, max_iter |-> max_iter, cur |-> c,
     i |-> j, ret |-> r]
Idle2 == Caller2("idle", NAN, NAN, 0, NAN, 0, NoRet)

Init ==
    /\ pc = "idle"
    /\ fn = "none"
    /\ arg = NoArg
    /\ cur = NAN
    /\ i = 0
    /\ n = 0
    /\ seeded = FALSE
    /\ last = NoStep
    /\ ret = NoRet
    /\ calls = {}
    /\ _BACKENDS = [k \in {"system"} |-> SystemTrigBackend]
    /\ _CURRENT = _BACKENDS["system"]
    /\ set_ret = NoSet
    /\ last_set = "system"
    /\ _A_SIN_ODD = SIN_ODD_COEFFS
    /\ _A_COS_EVEN = COS_EVEN_COEFFS
    /\ t2 = Idle2

\* The loop state of a call that completes in the step that makes it.
NoLoop ==
    /\ cur' = NAN
    /\ i' = 0
    /\ n' = 0
    /\ seeded' = FALSE
    /\ last' = NoStep

\* newton(f, fprime, x0, tol=tol, max_iter=max_iter, fd_eps=fd_eps) is
\* entered: x = float(x0), no pass made yet.
CallNewtonOn(F, D, X, T, I, E) ==
    /\ pc = "idle"
    /\ \E f \in F, fprime \in D, x0 \in X, tol \in T, max_iter \in I,
          fd_eps \in E :
          arg' = [NoArg EXCEPT !.f = f, !.fprime = fprime, !.x = x0,
                               !.tol = tol, !.max_iter = max_iter,
                               !.fd_eps = fd_eps]
    /\ pc' = "loop"
    /\ fn' = "newton"
    /\ cur' = arg'.x
    /\ i' = 0
    /\ n' = 0
    /\ seeded' = FALSE
    /\ last' = NoStep
    /\ ret' = NoRet
    /\ calls' = {}
    /\ UNCHANGED <<backend_vars, table_vars, t2>>

CallNewton ==
    CallNewtonOn(Functions, Derivatives, Starts, Tols, 0..MaxIter, FdEps)

\* A pass with outcome s is taken: the loop goes on from the new iterate, or the
\* call ends with the value returned or the exception raised.
TakeStep(s) ==
    /\ last' = s
    /\ n' = n + 1
    /\ IF s.kind = "continue"
       THEN /\ cur' = s.v
            /\ i' = i + 1
            /\ pc' = "loop"
            /\ ret' = ret
       ELSE /\ cur' = cur
            /\ i' = i
            /\ pc' = "done"
            /\ ret' = [kind |-> s.kind, v |-> s.v, err |-> s.err]
    /\ UNCHANGED <<fn, arg, seeded, calls>>
    /\ UNCHANGED <<backend_vars, table_vars, t2>>

\* The statement after the loop, with outcome s, ends the call.
LeaveLoop(s) ==
    /\ last' = s
    /\ ret' = [kind |-> s.kind, v |-> s.v, err |-> s.err]
    /\ pc' = "done"
    /\ UNCHANGED <<fn, arg, cur, i, n, seeded, calls>>
    /\ UNCHANGED <<backend_vars, table_vars, t2>>

\* One pass through the body of newton's for loop.
NewtonIter ==
    /\ pc = "loop"
    /\ fn = "newton"
    /\ i < arg.max_iter
    /\ TakeStep(newton_step(arg.f, arg.fprime, cur, i, arg.tol, arg.fd_eps))

\* range(max_iter) is used up: the statement after the loop.
NewtonExhausted ==
    /\ pc = "loop"
    /\ fn = "newton"
    /\ i >= arg.max_iter
    /\ LeaveLoop(newton_exhausted(arg.f, cur, arg.tol, arg.max_iter))

\* newton_sqrt(x, tol=tol, max_iter=max_iter) is entered: the special cases
\* return at once, otherwise the seed is computed and the loop is entered.
CallSqrtOn(X, T, I) ==
    /\ pc = "idle"
    /\ \E x \in X, tol \in T, max_iter \in I :
          arg' = [NoArg EXCEPT !.x = x, !.tol = tol, !.max_iter = max_iter]
    /\ fn' = "newton_sqrt"
    /\ i' = 0
    /\ n' = 0
    /\ last' = NoStep
    /\ calls' = {}
    /\ UNCHANGED <<backend_vars, table_vars, t2>>
    /\ LET sp == sqrt_special(arg'.x)
       IN IF sp # Exc("None")
          THEN /\ pc' = "done"
               /\ ret' = Returned(sp)
               /\ seeded' = FALSE
               /\ cur' = NAN
          ELSE /\ pc' = "loop"
               /\ ret' = NoRet
               /\ seeded' = TRUE
               /\ cur' = sqrt_seed(arg'.x)

CallSqrt == CallSqrtOn(Floats, Tols, (0..MaxIter) \cup {SQRT_MAX_ITER})

\* One pass through the body of newton_sqrt's for loop.
SqrtIter ==
    /\ pc = "loop"
    /\ fn = "newton_sqrt"
    /\ i < arg.max_iter
    /\ TakeStep(sqrt_step(arg.x, cur, arg.tol))

\* range(max_iter) is used up: the statement after the loop.
SqrtExhausted ==
    /\ pc = "loop"
    /\ fn = "newton_sqrt"
    /\ i >= arg.max_iter
    /\ LeaveLoop(sqrt_exhausted(cur))

\* A faulty variant of Complete: the call leaves the default backend active.
Complete_resetting(name, a, r) ==
    /\ pc' = "done"
    /\ fn' = name
    /\ arg' = a
    /\ ret' = Result(r.v)
    /\ calls' = r.calls
    /\ NoLoop
    /\ _CURRENT' = _BACKENDS["system"]
    /\ UNCHANGED <<_BACKENDS, set_ret, last_set, table_vars, t2>>

\* A straight-line call completes: r holds its result and the callees it used.
Complete(name, a, r) ==
    /\ pc' = "done"
    /\ fn' = name
    /\ arg' = a
    /\ ret' = Result(r.v)
    /\ calls' = r.calls
    /\ NoLoop
    /\ UNCHANGED <<backend_vars, table_vars, t2>>

\* exp(x) is called and completes.
CallExpOn(X) ==
    /\ pc = "idle"
    /\ \E x \in X :
          Complete("exp", [NoArg EXCEPT !.x = x], R(exp(x), {}))

CallExp == CallExpOn(Floats)

\* log(x) or log(x, base) is called and completes.
CallLogOn(X, B) ==
    /\ pc = "idle"
    /\ \E x \in X, base \in B :
          Complete("log", [NoArg EXCEPT !.x = x, !.base = base], log(x, base))

CallLog == CallLogOn(Floats, Bases)

\* sinh(x) is called and completes.
CallSinhOn(X) ==
    /\ pc = "idle"
    /\ \E x \in X :
          Complete("sinh", [NoArg EXCEPT !.x = x], sinh(x))

CallSinh == CallSinhOn(Floats)

\* cosh(x) is called and completes.
CallCoshOn(X) ==
    /\ pc = "idle"
    /\ \E x \in X :
          Complete("cosh", [NoArg EXCEPT !.x = x], cosh(x))

CallCosh == CallCoshOn(Floats)

\* tanh(x) is called and completes.
CallTanhOn(X) ==
    /\ pc = "idle"
    /\ \E x \in X :
          Complete("tanh", [NoArg EXCEPT !.x = x], tanh(x))

CallTanh == CallTanhOn(Floats)

\* asinh(x) is called and completes.
CallAsinhOn(X) ==
    /\ pc = "idle"
    /\ \E x \in X :
          Complete("asinh", [NoArg EXCEPT !.x = x], asinh(x))

CallAsinh == CallAsinhOn(Floats)

\* acosh(x) is called and completes.
CallAcoshOn(X) ==
    /\ pc = "idle"
    /\ \E x \in X :
          Complete("acosh", [NoArg EXCEPT !.x = x], acosh(x))

CallAcosh == CallAcoshOn(Floats)

\* atanh(x) is called and completes.
CallAtanhOn(X) ==
    /\ pc = "idle"
    /\ \E x \in X :
          Complete("atanh", [NoArg EXCEPT !.x = x], atanh(x))

CallAtanh == CallAtanhOn(Floats)

\* sin(x) of trig_pure is called and completes.
CallSinOn(X) ==
    /\ pc = "idle"
    /\ \E x \in X :
          Complete("sin", [NoArg EXCEPT !.x = x], R(sin(x), {}))

\* cos(x) of trig_pure is called and completes.
CallCosOn(X) ==
    /\ pc = "idle"
    /\ \E x \in X :
          Complete("cos", [NoArg EXCEPT !.x = x], R(cos(x), {}))

\* tan(x) of trig_pure is called and completes.
CallTanOn(X) ==
    /\ pc = "idle"
    /\ \E x \in X :
          Complete("tan", [NoArg EXCEPT !.x = x], R(tan(x), {}))

\* The arguments of the pure trigonometric functions beside the calls above.
EntryFloats == Specials \cup {One, FromInt(100), BigF}

\* The caller takes the result; the library is ready for the next call.
Return ==
    /\ pc = "done"
    /\ pc' = "idle"
    /\ fn' = "none"
    /\ arg' = NoArg
    /\ ret' = NoRet
    /\ calls' = {}
    /\ NoLoop
    /\ UNCHANGED <<backend_vars, table_vars, t2>>

\* set_backend(name) is called, from any thread and at any moment, and
\* completes with outcome r.
SetBackendDone(name, r) ==
    /\ _BACKENDS' = r.B
    /\ _CURRENT' = r.C
    /\ set_ret' = [name |-> name, raised |-> r.raised]
    /\ last_set' = IF r.raised = "None" THEN name ELSE last_set
    /\ UNCHANGED <<call_vars, table_vars, t2>>

SetBackend == \E name \in BackendNames : SetBackendDone(name, set_backend(name))

Next ==
    \/ CallNewton
    \/ NewtonIter
    \/ NewtonExhausted
    \/ CallSqrt
    \/ SqrtIter
    \/ SqrtExhausted
    \/ CallExp
    \/ CallLog
    \/ CallSinh
    \/ CallCosh
    \/ CallTanh
    \/ CallAsinh
    \/ CallAcosh
    \/ CallAtanh
    \/ CallSinOn(EntryFloats)
    \/ CallCosOn(EntryFloats)
    \/ CallTanOn(EntryFloats)
    \/ Return

Spec == Init /\ [][Next]_vars

\* ---------------------------------------------------------------------------
\* The library in a process that also switches backends: set_backend is
\* called at any moment, between and during the calls of the core functions.
\* The core functions are called with a part of the arguments above.
\* ---------------------------------------------------------------------------

ThreadFloats == {NAN, INF, Zero(FALSE), One, Two, Half, FromInt(-1),
                 FromInt(3), BigF}
ThreadFunctions == {Fn("linear", Two), Fn("quad", NAN)}
ThreadDerivatives == {None, Fn("const", One), Fn("quadprime", NAN)}
ThreadStarts == {FromInt(0), FromInt(3), Half}

ThreadsNext ==
    \/ CallNewtonOn(ThreadFunctions, ThreadDerivatives, ThreadStarts,
                    {TOL_DEFAULT}, 0..MaxIter, {FD_EPS_DEFAULT})
    \/ NewtonIter
    \/ NewtonExhausted
    \/ CallSqrtOn(ThreadFloats, {TOL_DEFAULT}, 0..MaxIter)
    \/ SqrtIter
    \/ SqrtExhausted
    \/ CallExpOn(ThreadFloats)
    \/ CallLogOn(ThreadFloats, {NoBase, Two})
    \/ CallSinhOn(ThreadFloats)
    \/ CallCoshOn(ThreadFloats)
    \/ CallTanhOn(ThreadFloats)
    \/ CallAsinhOn(ThreadFloats)
    \/ CallAcoshOn(ThreadFloats)
    \/ CallAtanhOn(ThreadFloats)
    \/ Return
    \/ SetBackend

Threads == Init /\ [][ThreadsNext]_vars

\* ---------------------------------------------------------------------------
\* The helpers and the pure trigonometric functions in use: one caller applies
\* them to arguments from bounded sets.
\* ---------------------------------------------------------------------------

\* k / 4 for an integer k.
Quarters(k) == Round(k < 0, IF k < 0 THEN -k ELSE k, -2, FALSE)

RoundFloats ==
    Specials \cup {Quarters(k) : k \in (-4 * MaxInt - 2)..(4 * MaxInt + 2)}
        \cup {BigF, FNeg(BigF), MaxFinite, MinSub, FNeg(MinSub),
              Quarters(Pow2(Prec) - 2), Quarters(Pow2(Prec) - 6),
              FNeg(Quarters(Pow2(Prec) - 2)), Pow2F(Prec), Pow2F(Prec + 1)}

TrigFloats ==
    Specials \cup {Quarters(k) : k \in (-4 * MaxInt)..(4 * MaxInt)}
        \cup {BigF, FNeg(BigF), MaxFinite, MinSub, TinyF, Pow2F(-41),
              Pow2F(Prec), Pow2F(2 * Prec), Pow2F(4 * Prec), FromInt(100),
              FromInt(-100), FromInt(355), FromInt(1000)}

LdexpFloats ==
    Floats \cup {Pow2F(DBL_MAX_EXP - 1), FNeg(Pow2F(DBL_MAX_EXP - 1)),
                 Pow2F(DBL_MAX_EXP - 2), Pow2F(DBL_MIN_EXP),
                 Fin(FALSE, 3, ULo), Quarters(3), Quarters(-5)}

Pow2Ints == -1080..1030

\* Reduction results (q, r_hi, r_lo), remainders below 2**-40 among them.
RemHi == {Zero(FALSE), Zero(TRUE), Pow2F(-41), FNeg(Pow2F(-41)), Pow2F(-40),
          FNeg(Pow2F(-40)), Lit(FALSE, 3, -42), TinyF, Half, FNeg(Half),
          Quarters(3)}
RemLo == {Zero(FALSE), Pow2F(-60), FNeg(Pow2F(-60))}
Reductions ==
    {[t |-> "red", q |-> q, h |-> h, l |-> l] :
        q \in 0..3, h \in RemHi, l \in RemLo}

\* Remainders before the post-correction, on both sides of +-pi/4 and far
\* enough out for two corrections and more.
RawRemainders ==
    {[t |-> "red", q |-> 0, h |-> h, l |-> l] :
        h \in {Quarters(j) : j \in {-18, -10, -4, -3, 0, 2, 3, 4, 7, 10, 18}},
        l \in RemLo}
CorrectInts == {-5, -2, -1, 0, 1, 6}

ExpFloats ==
    {MAX_LOG, FNeg(MAX_LOG), MIN_LOG, FromInt(700), FromInt(-700),
     FromInt(351), NAN, INF, NINF, NextUp(MAX_LOG)}
        \cup {Quarters(j) : j \in (-4 * MaxInt)..(4 * MaxInt)}

GcdInts ==
    {py_int("int", v) : v \in {-18, -12, -7, -1, 0, 1, 4, 12, 18}}
        \cup {py_int("bool", 0), py_int("bool", 1)}
GcdArgs ==
    {<<>>, <<Half>>, <<py_int("int", 12), Half>>}
        \cup {<<a>> : a \in GcdInts}
        \cup {<<a, b>> : a, b \in GcdInts}
        \cup {<<a, b, c>> : a, b, c \in GcdInts}

Numerators == {One, FromInt(-1), FromInt(3), Half, TinyF, NAN, INF, BigF}
Denominators == {Zero(FALSE), Zero(TRUE), One, FromInt(3), FromInt(-2), NAN,
                 INF, TinyF}

\* _compensated_div(n, d) is called and completes.
CallCompensatedDivOn(N, D) ==
    /\ pc = "idle"
    /\ \E num \in N, d \in D :
          Complete("_compensated_div", [NoArg EXCEPT !.x = num, !.d = d],
                   R(_compensated_div(num, d), {}))

\* sin(x) from the reduction result on: sticky branch or kernels, quadrant.
CallSinReducedOn(Rd) ==
    /\ pc = "idle"
    /\ \E rd \in Rd :
          Complete("sin_reduced", [NoArg EXCEPT !.rd = rd],
                   R(sin_reduced(rd), {}))

\* cos(x) from the reduction result on.
CallCosReducedOn(Rd) ==
    /\ pc = "idle"
    /\ \E rd \in Rd :
          Complete("cos_reduced", [NoArg EXCEPT !.rd = rd],
                   R(cos_reduced(rd), {}))

\* The post-correction of _reduce_pi2 is applied to (k, r_hi, r_lo).
CallCorrectOn(K, Rd) ==
    /\ pc = "idle"
    /\ \E k \in K, rd \in Rd :
          Complete("correct", [NoArg EXCEPT !.k = k, !.rd = rd],
                   R(correct_from(k, rd), {}))

\* gcd(*args) is called and completes.
CallGcdOn(A) ==
    /\ pc = "idle"
    /\ \E a \in A :
          Complete("gcd", [NoArg EXCEPT !.args = a], R(gcd(a), {}))

\* _round_half_even(y) is called and completes.
CallRoundHalfEvenOn(X) ==
    /\ pc = "idle"
    /\ \E y \in X :
          Complete("_round_half_even", [NoArg EXCEPT !.x = y],
                   R(_round_half_even(y), {}))

\* round_even(x) is called and completes.
CallRoundEvenOn(X) ==
    /\ pc = "idle"
    /\ \E x \in X :
          Complete("round_even", [NoArg EXCEPT !.x = x], R(round_even(x), {}))

\* ldexp(*frexp(x)) is called and completes.
CallLdexpOn(X) ==
    /\ pc = "idle"
    /\ \E x \in X :
          Complete("ldexp", [NoArg EXCEPT !.x = x],
                   R(ldexp_of(frexp(x)), {"frexp"}))

\* pow2_int(k) is called and completes.
CallPow2IntOn(K) ==
    /\ pc = "idle"
    /\ \E k \in K :
          Complete("pow2_int", [NoArg EXCEPT !.k = k], R(pow2_int(k), {}))

NumericsNext ==
    \/ CallSinOn(TrigFloats)
    \/ CallCosOn(TrigFloats)
    \/ CallTanOn(TrigFloats)
    \/ CallCompensatedDivOn(Numerators, Denominators)
    \/ CallRoundHalfEvenOn(RoundFloats)
    \/ CallRoundEvenOn(RoundFloats)
    \/ CallLdexpOn(LdexpFloats)
    \/ CallPow2IntOn(Pow2Ints)
    \/ CallGcdOn(GcdArgs)
    \/ CallCorrectOn(CorrectInts, RawRemainders)
    \/ CallExpOn(ExpFloats)
    \/ CallSinReducedOn(Reductions)
    \/ CallCosReducedOn(Reductions)
    \/ Return

Numerics == Init /\ [][NumericsNext]_vars

\* ---------------------------------------------------------------------------
\* Two callers and set_backend, interleaved step by step.
\* ---------------------------------------------------------------------------

\* _sin_series_cheb(y) is called and completes.
CallSinSeriesOn(Y) ==
    /\ pc = "idle"
    /\ \E y \in Y :
          Complete("_sin_series_cheb", [NoArg EXCEPT !.x = y],
                   R(_sin_series_cheb(y), {}))

\* _cos_series_cheb(y) is called and completes.
CallCosSeriesOn(Y) ==
    /\ pc = "idle"
    /\ \E y \in Y :
          Complete("_cos_series_cheb", [NoArg EXCEPT !.x = y],
                   R(_cos_series_cheb(y), {}))

\* The second caller enters newton_sqrt(x, tol=tol, max_iter=max_iter): sp is
\* what the special cases return.
Enter2(x, tol, max_iter, sp) ==
    IF sp # Exc("None")
    THEN Caller2("done", x, tol, max_iter, NAN, 0, Returned(sp))
    ELSE Caller2("loop", x, tol, max_iter, sqrt_seed(x), 0, NoRet)

Call2SqrtOn(X, T, I) ==
    /\ t2.pc = "idle"
    /\ \E x \in X, tol \in T, max_iter \in I :
          t2' = Enter2(x, tol, max_iter, sqrt_special(x))
    /\ UNCHANGED <<call_vars, backend_vars, table_vars>>

\* The second caller after a pass, or the statement after the loop, with
\* outcome s.
Step2(t, s) ==
    IF s.kind = "continue"
    THEN [t EXCEPT !.cur = s.v, !.i = t.i + 1]
    ELSE [t EXCEPT !.pc = "done",
                   !.ret = [kind |-> s.kind, v |-> s.v, err |-> s.err]]

\* One pass of the second caller through newton_sqrt's loop.
Sqrt2Iter ==
    /\ t2.pc = "loop"
    /\ t2.i < t2.max_iter
    /\ t2' = Step2(t2, sqrt_step(t2.x, t2.cur, t2.tol))
    /\ UNCHANGED <<call_vars, backend_vars, table_vars>>

\* The second caller used up range(max_iter).
Sqrt2Exhausted ==
    /\ t2.pc = "loop"
    /\ t2.i >= t2.max_iter
    /\ t2' = Step2(t2, sqrt_exhausted(t2.cur))
    /\ UNCHANGED <<call_vars, backend_vars, table_vars>>

\* The second caller takes its result.
Return2 ==
    /\ t2.pc = "done"
    /\ t2' = Idle2
    /\ UNCHANGED <<call_vars, backend_vars, table_vars>>

\* set_backend(name) for one of the given names.
SetBackendOn(Names) ==
    \E name \in Names : SetBackendDone(name, set_backend(name))

InterleavedNext ==
    \/ CallNewtonOn({Fn("linear", Two)}, {None, Fn("const", One)},
                    {FromInt(3)}, {TOL_DEFAULT}, {0, MaxIter},
                    {FD_EPS_DEFAULT})
    \/ NewtonIter
    \/ NewtonExhausted
    \/ CallSqrtOn({Two}, {TOL_DEFAULT}, {1, SQRT_MAX_ITER})
    \/ SqrtIter
    \/ SqrtExhausted
    \/ CallExpOn({One})
    \/ CallLogOn({Two}, {NoBase})
    \/ CallSinhOn({One})
    \/ CallCoshOn({One})
    \/ CallTanhOn({One})
    \/ CallAsinhOn({One})
    \/ CallAcoshOn({Two})
    \/ CallAtanhOn({Half})
    \/ CallSinOn({One})
    \/ CallCosOn({One})
    \/ CallTanOn({One})
    \/ CallSinSeriesOn({Half})
    \/ CallCosSeriesOn({Half})
    \/ Return
    \/ Call2SqrtOn({FromInt(3), NAN}, {TOL_DEFAULT}, {MaxIter - 1, SQRT_MAX_ITER})
    \/ Sqrt2Iter
    \/ Sqrt2Exhausted
    \/ Return2
    \/ SetBackendOn({"system", "pure", "numpy"})

Interleaved == Init /\ [][InterleavedNext]_vars

\* ---------------------------------------------------------------------------
\* Properties
\* ---------------------------------------------------------------------------

ConvergenceRaised == ret.kind = "raise" /\ ret.v = Exc("ConvergenceError")

\* C1: newton raises ConvergenceError, and returns no value, when the
\* derivative of a pass (fprime(x), or the forward difference when fprime is
\* None) evaluates to exactly 0, and when max_iter passes have gone by without
\* one meeting the convergence test (f returning a value for the residual);
\* the loop never makes more than max_iter passes, and with max_iter = 0 the
\* call ends in a raise with no pass made.
C1_NewtonRaisesConvergenceError ==
    fn = "newton" =>
        /\ i <= arg.max_iter /\ n <= arg.max_iter
        /\ (last.kind # "none" /\ IsFin(last.dfx) /\ FEq(last.dfx, Zero(FALSE)))
              => (pc = "done" /\ ConvergenceRaised)
        /\ (pc = "done" /\ i = arg.max_iter)
              => /\ ret.kind = "raise"
                 /\ ~IsExc(Apply(arg.f, cur)) => ConvergenceRaised
        /\ (pc = "done" /\ arg.max_iter = 0) => (n = 0 /\ ret.kind = "raise")

\* A newton call that met a zero finite-difference estimate and raised.
C1_Witness ==
    /\ fn = "newton" /\ pc = "done"
    /\ arg.fprime = None
    /\ IsFin(last.dfx) /\ FEq(last.dfx, Zero(FALSE))
    /\ ConvergenceRaised

\* C2: whenever newton returns a value, the value is the x_new = x + dx of a
\* pass with dx = -f(x) / f'(x), that pass met |dx| <= tol * max(1, |x_new|),
\* and it was one of the first max_iter passes; what the statement after the
\* loop produces is never a returned value.
C2_NewtonReturnsOnlyConverged ==
    (fn = "newton" /\ ret.kind = "return") =>
        /\ last.kind = "return"
        /\ ret.v = last.v
        /\ last.fx = Apply(arg.f, cur)
        /\ last.dx = FDiv(FNeg(last.fx), last.dfx)
        /\ last.v = FAdd(cur, last.dx)
        /\ FLe(FAbs(last.dx), FMul(arg.tol, PyMax(One, FAbs(last.v))))
        /\ i < arg.max_iter /\ n <= arg.max_iter

\* A newton call that returned from its third pass.
C2_Witness ==
    /\ fn = "newton" /\ ret.kind = "return"
    /\ n = 3
    /\ FNe(last.dx, Zero(FALSE))

\* C3: log(0) returns -Inf, for +0.0 and for -0.0, and does not raise.
C3_LogOfZeroIsMinusInf ==
    (fn = "log" /\ pc = "done" /\ arg.base = NoBase /\ IsZero(arg.x))
        => ret = Returned(NINF)

\* C4: log(x) returns NaN for NaN, +Inf for +Inf and exactly 0 for x == 1,
\* and raises InvalidValueError for every x < 0, -Inf included; in none of
\* these cases is newton invoked.
C4_LogSpecials ==
    (fn = "log" /\ pc = "done" /\ arg.base = NoBase) =>
        /\ IsNaN(arg.x) => (ret = Returned(NAN) /\ "newton" \notin calls)
        /\ arg.x = INF => (ret = Returned(INF) /\ "newton" \notin calls)
        /\ FEq(arg.x, One) =>
              (ret = Returned(Zero(FALSE)) /\ "newton" \notin calls)
        /\ FLt(arg.x, Zero(FALSE)) =>
              /\ ret = Raised(Exc("InvalidValueError"), NoErr)
              /\ "newton" \notin calls

\* log(-Inf) has raised InvalidValueError.
C4_Witness ==
    /\ fn = "log" /\ pc = "done" /\ arg.base = NoBase
    /\ arg.x = NINF
    /\ ret = Raised(Exc("InvalidValueError"), NoErr)

\* C5: for every x, NaN, +Inf and 1 included, log(x, base) raises
\* InvalidValueError whenever base <= 0 or base == 1.
C5_LogBadBaseRaises ==
    (fn = "log" /\ pc = "done" /\ arg.base # NoBase
       /\ (FLe(arg.base, Zero(FALSE)) \/ FEq(arg.base, One)))
        => ret = Raised(Exc("InvalidValueError"), NoErr)

\* C6: exp returns NaN for NaN, +Inf for +Inf, 0 for -Inf, +Inf for every
\* finite x > MAX_LOG and 0 for every finite x < MIN_LOG.
C6_ExpSpecials ==
    (fn = "exp" /\ pc = "done") =>
        /\ IsNaN(arg.x) => ret = Returned(NAN)
        /\ arg.x = INF => ret = Returned(INF)
        /\ arg.x = NINF => ret = Returned(Zero(FALSE))
        /\ (IsFin(arg.x) /\ FGt(arg.x, MAX_LOG)) => ret = Returned(INF)
        /\ (IsFin(arg.x) /\ FLt(arg.x, MIN_LOG)) => ret = Returned(Zero(FALSE))

\* exp of the float next above MAX_LOG has returned +Inf.
C6_Witness ==
    /\ fn = "exp" /\ pc = "done"
    /\ arg.x = NextUp(MAX_LOG)
    /\ ret = Returned(INF)

\* C7: newton_sqrt returns NaN for NaN and for every negative input, -Inf
\* included, 0 for a zero and +Inf for +Inf, and does so before a seed or a
\* Newton update is computed.
C7_SqrtSpecials ==
    fn = "newton_sqrt" =>
        /\ (IsNaN(arg.x) \/ FLt(arg.x, Zero(FALSE))) =>
              (pc = "done" /\ ret = Returned(NAN) /\ ~seeded /\ n = 0)
        /\ IsZero(arg.x) =>
              (pc = "done" /\ ret = Returned(Zero(FALSE)) /\ ~seeded /\ n = 0)
        /\ arg.x = INF =>
              (pc = "done" /\ ret = Returned(INF) /\ ~seeded /\ n = 0)

\* newton_sqrt(-Inf) has returned NaN with no seed computed.
C7_Witness ==
    /\ fn = "newton_sqrt" /\ pc = "done"
    /\ arg.x = NINF
    /\ ret = Returned(NAN) /\ ~seeded

\* C8: newton_sqrt never raises, whatever the input and max_iter >= 0; for a
\* finite x > 0 it makes at most max_iter updates y <- 0.5 * (y + x / y),
\* returns the update of the first pass with |y - prev| <= tol * max(1, y),
\* and otherwise returns the last estimate after max_iter updates, which is the
\* seed when max_iter = 0.
C8_SqrtNeverRaises ==
    fn = "newton_sqrt" =>
        /\ ret.kind # "raise"
        /\ i <= arg.max_iter /\ n <= arg.max_iter
        /\ seeded =>
              /\ IsFin(arg.x) /\ FGt(arg.x, Zero(FALSE))
              /\ (pc = "loop" /\ last.kind # "none") =>
                    /\ last.kind = "continue"
                    /\ ~FLe(FAbs(last.dx), FMul(arg.tol, PyMax(One, last.v)))
              /\ (pc = "done" /\ i < arg.max_iter) =>
                    /\ ret = Returned(last.v)
                    /\ last.v = FMul(Half, FAdd(cur, FDiv(arg.x, cur)))
                    /\ FLe(FAbs(FSub(last.v, cur)),
                           FMul(arg.tol, PyMax(One, last.v)))
              /\ (pc = "done" /\ i = arg.max_iter) =>
                    /\ ret = Returned(cur)
                    /\ n = arg.max_iter
                    /\ arg.max_iter = 0 => cur = sqrt_seed(arg.x)

\* newton_sqrt has used up a positive max_iter without meeting the test and
\* returned its last estimate.
C8_Witness ==
    /\ fn = "newton_sqrt" /\ pc = "done"
    /\ seeded
    /\ arg.max_iter > 0 /\ i = arg.max_iter
    /\ ret = Returned(cur)

\* C9: for every float input, exp, newton_sqrt, sinh, cosh, tanh, asinh,
\* acosh and atanh return a float and never raise.
C9_PropagationFamilyNeverRaises ==
    (fn \in {"exp", "newton_sqrt", "sinh", "cosh", "tanh", "asinh", "acosh",
             "atanh"})
        => ret.kind # "raise"

Hyperbolics == {"sinh", "cosh", "tanh", "asinh", "acosh", "atanh"}

\* C10: sinh, cosh, tanh, asinh, acosh and atanh each return NaN for NaN,
\* +Inf and -Inf, without calling exp, log or sqrt.
C10_HyperbolicNonFinite ==
    (fn \in Hyperbolics /\ pc = "done" /\ arg.x \in {NAN, INF, NINF}) =>
        /\ ret = Returned(NAN)
        /\ calls \cap {"exp", "log", "sqrt"} = {}

\* asinh(+Inf) has returned NaN.
C10_Witness ==
    /\ fn = "asinh" /\ pc = "done"
    /\ arg.x = INF
    /\ ret = Returned(NAN)

\* C11: acosh returns NaN for every finite x < 1 and atanh returns NaN for
\* every finite x with |x| >= 1, neither raising nor calling log; acosh(1)
\* returns 0 and atanh of a zero returns that same signed zero.
C11_InverseHyperbolicDomain ==
    /\ (fn = "acosh" /\ pc = "done" /\ IsFin(arg.x)) =>
          /\ FLt(arg.x, One) => (ret = Returned(NAN) /\ "log" \notin calls)
          /\ FEq(arg.x, One) => ret = Returned(Zero(FALSE))
    /\ (fn = "atanh" /\ pc = "done" /\ IsFin(arg.x)) =>
          /\ FGe(FAbs(arg.x), One) =>
                (ret = Returned(NAN) /\ "log" \notin calls)
          /\ IsZero(arg.x) => ret = Returned(arg.x)

\* acosh(0.5) has returned NaN without a call of log.
C11_Witness ==
    /\ fn = "acosh" /\ pc = "done"
    /\ arg.x = Half
    /\ ret = Returned(NAN) /\ "log" \notin calls

\* C12: for every finite x, tanh(x) lies in [-1, 1]; for |x| > 20 it returns
\* exactly +1 or -1 with the sign of x without calling exp; for
\* 0 < |x| <= 20 exp is called with 2|x|, which is at most 40, and exp of it
\* is not +Inf.
C12_TanhRange ==
    (fn = "tanh" /\ pc = "done" /\ IsFin(arg.x)) =>
        /\ ret.kind = "return"
        /\ FLe(FNeg(One), ret.v) /\ FLe(ret.v, One)
        /\ FGt(FAbs(arg.x), TANH_SAT) =>
              /\ ret = Returned(IF arg.x.neg THEN FNeg(One) ELSE One)
              /\ "exp" \notin calls
        /\ (~IsZero(arg.x) /\ FLe(FAbs(arg.x), TANH_SAT)) =>
              /\ "exp" \in calls
              /\ FLe(FMul(Two, FAbs(arg.x)), FromInt(40))
              /\ exp(FMul(Two, FAbs(arg.x))) # INF

\* tanh of the float next above 20, negated, has returned -1 with no call of
\* exp.
C12_Witness ==
    /\ fn = "tanh" /\ pc = "done"
    /\ arg.x = FNeg(NextUp(TANH_SAT))
    /\ ret = Returned(FNeg(One)) /\ "exp" \notin calls

\* C14: after any sequence of set_backend calls, failing ones included, one
\* backend is active: get_backend_name() is "system" before any successful
\* call and otherwise the name passed to the most recent successful call, and
\* the active backend is an entry of the registry, under its own name.
C14_OneActiveBackend ==
    /\ get_backend_name = last_set
    /\ get_backend_name \in DOMAIN _BACKENDS
    /\ _BACKENDS[get_backend_name] = get_backend
    /\ Cardinality({k \in DOMAIN _BACKENDS : _BACKENDS[k] = get_backend}) = 1

\* "pure" is registered, "system" was made active again after it, and the
\* latest set_backend call failed.
C14_Witness ==
    /\ "pure" \in DOMAIN _BACKENDS
    /\ get_backend_name = "system"
    /\ set_ret.raised = "ValueError"

\* A completed newton call on f(x) = x - c from a finite start with a budget
\* of at least two passes.
LinearCall ==
    /\ fn = "newton" /\ pc = "done"
    /\ arg.f.fn = "linear"
    /\ IsFin(arg.x)
    /\ arg.max_iter >= 2

\* The first step from x0 lands on c: x0 + (-(x0 - c)) == c in floating point.
FirstStepLands == FEq(FAdd(arg.x, FNeg(FSub(arg.x, arg.f.c))), arg.f.c)

\* C16 as stated, in the case of the supplied derivative and the default
\* tolerance: for f(x) = x - c with the derivative 1, any finite start and
\* max_iter >= 2, newton returns exactly c after at most 2 iterations.
C16_LinearTwoIterations ==
    (LinearCall /\ arg.fprime = Fn("const", One) /\ arg.tol = TOL_DEFAULT) =>
        /\ ret.kind = "return"
        /\ FEq(ret.v, arg.f.c)
        /\ n <= 2

\* C16, amended: with the derivative 1 supplied, newton returns exactly c
\* after at most 2 iterations whenever the first step lands on c in floating
\* point; when rounding of x0 - c makes it miss c, or with the
\* finite-difference estimate, nothing of the kind is promised.
C16_LinearExactFirstStep ==
    (LinearCall /\ arg.fprime = Fn("const", One) /\ FirstStepLands) =>
        /\ ret.kind = "return"
        /\ FEq(ret.v, arg.f.c)
        /\ n <= 2

\* newton on x - 2 from 4 with the derivative 1, the default tolerance and a
\* budget of two passes: the first pass steps to 2, the second returns 2 with
\* dx = 0.
C16_Witness ==
    /\ LinearCall /\ arg.fprime = Fn("const", One)
    /\ arg.x = FromInt(4) /\ arg.tol = TOL_DEFAULT /\ arg.max_iter = 2
    /\ n = 2 /\ ret = Returned(Two) /\ IsZero(last.dx)

\* C17: every ConvergenceError newton raises carries the iteration count, the
\* last residual and the target tolerance: from the zero-derivative test of
\* 0-based pass i, iterations = i and residual = f(x_i); from the statement
\* after the loop, iterations = max_iter and residual = |f(x)| at the last
\* iterate; target_tol = tol in both.
C17_ConvergenceErrorPayload ==
    (fn = "newton" /\ pc = "done" /\ ret.kind = "raise"
        /\ ret.v = Exc("ConvergenceError")) =>
        IF i < arg.max_iter
        THEN /\ n = i + 1
             /\ FEq(last.dfx, Zero(FALSE))
             /\ ret.err = ErrInfo(i, Apply(arg.f, cur), arg.tol)
        ELSE /\ n = arg.max_iter
             /\ ret.err = ErrInfo(arg.max_iter, FAbs(Apply(arg.f, cur)), arg.tol)

\* newton on x - 2 used up a budget of two passes at an iterate with a
\* negative function value and raised with its absolute value.
C17_Witness ==
    /\ fn = "newton" /\ pc = "done" /\ ret.v = Exc("ConvergenceError")
    /\ i = arg.max_iter /\ arg.max_iter = 2
    /\ FLt(Apply(arg.f, cur), Zero(FALSE))
    /\ ret.err.iterations = 2
    /\ ret.err.residual = FAbs(Apply(arg.f, cur))
    /\ ret.err.target_tol = arg.tol

\* C13: pure tan forms the quotient s / c in quadrants 0 and 2 and -c / s in
\* quadrants 1 and 3, and whenever the denominator of that quotient is exactly
\* zero the result is NaN: nothing is raised and no infinity is returned.
\* Stated for tan on a finite argument whose reduction succeeds, and for the
\* division _compensated_div that forms the quotient.
C13_TanPoleIsNaN ==
    /\ (fn = "tan" /\ pc = "done" /\ IsFin(arg.x)
           /\ _reduce_pi2(arg.x).t = "red") =>
          ret = Result(tan_quotient_guarded(
                           _reduce_pi2(arg.x).q,
                           _sin_cos_dd(_reduce_pi2(arg.x).h,
                                       _reduce_pi2(arg.x).l)))
    /\ (fn = "_compensated_div" /\ pc = "done" /\ IsZero(arg.d)) =>
          ret = Returned(NAN)

\* C18: ldexp is the inverse of frexp: for every finite non-zero x, subnormals
\* and values of magnitude >= 2^1023 included, frexp(x) = (m, e) has
\* 0.5 <= |m| < 1 and ldexp(m, e) == x exactly.
C18_LdexpInvertsFrexp ==
    (fn = "ldexp" /\ pc = "done" /\ IsFin(arg.x) /\ ~IsZero(arg.x)) =>
        /\ FLe(Half, FAbs(frexp(arg.x).m))
        /\ FLt(FAbs(frexp(arg.x).m), One)
        /\ ret = Returned(arg.x)

\* C19: pow2_int(k) equals 2^k exactly for k from the exponent of the
\* smallest subnormal (-1074 in binary64) to 1023, is 0.0 below that, and
\* raises NumericOverflowError, a subclass of OverflowError, for k > 1023; in
\* value or in overflow outcome it agrees with the built-in 2.0 ** k.
C19_Pow2IntMatchesBuiltin ==
    (fn = "pow2_int" /\ pc = "done") =>
        /\ (ULo <= arg.k /\ arg.k <= 1023) =>
              /\ ret.kind = "return"
              /\ IsFin(ret.v)
              /\ ~ret.v.neg
              /\ ret.v.m = Pow2(arg.k - ret.v.e)
              /\ ret = Returned(Pow2F(arg.k))
        /\ arg.k < ULo =>
              /\ ret = Returned(Zero(FALSE))
              /\ ret = Returned(Pow2F(arg.k))
        /\ arg.k > 1023 =>
              /\ ret.kind = "raise"
              /\ ret.v = Exc("NumericOverflowError")
              /\ Pow2F(arg.k) = Exc("OverflowError")

\* pow2_int returned the smallest subnormal; 2^1023 is within its reach.
C19_Witness ==
    /\ fn = "pow2_int" /\ pc = "done"
    /\ arg.k = ULo
    /\ ret = Returned(MinSub)
    /\ pow2_int(1023) = Fin(FALSE, Pow2(Prec - 1), UHi)

\* The integer nearest to the magnitude of a finite y with a negative
\* exponent, a half going to the even neighbour.
NearestTail(q, rem, half) ==
    IF rem > half \/ (rem = half /\ q % 2 = 1) THEN q + 1 ELSE q
NearestMag(y) ==
    IF -y.e > Prec + 1 THEN 0
    ELSE NearestTail(y.m \div Pow2(-y.e), y.m % Pow2(-y.e), Pow2(-y.e - 1))

\* The Python int N as the functions return it.
IntOf(N) == IntK(FromInt(N), N % 4)

\* round(y) of Python for a float y.
PyRound(y) ==
    IF IsNaN(y) THEN Raised(Exc("ValueError"), NoErr)
    ELSE IF IsInf(y) THEN Raised(Exc("OverflowError"), NoErr)
    ELSE IF y.e >= 0 THEN Returned(PyInt(y))
    ELSE Returned(IntOf(IF y.neg THEN -NearestMag(y) ELSE NearestMag(y)))

\* C20: round_even(x) and _round_half_even(y) return the integer nearest to
\* their argument, an exact half going to the even neighbour, for negative as
\* for non-negative arguments: the result of Python's round.
C20_RoundHalfToEven ==
    (fn \in {"round_even", "_round_half_even"} /\ pc = "done") =>
        ret = PyRound(arg.x)

\* _round_half_even(-3.5) returned -4 and round_even(-2.5) would return -2.
C20_Witness ==
    /\ fn = "_round_half_even" /\ pc = "done"
    /\ arg.x = Quarters(-14)
    /\ ret = Returned(IntOf(-4))
    /\ round_even(Quarters(-10)) = IntOf(-2)

\* What the completed call of the first caller returns or raises when it runs
\* alone with the same argument and the lists as the module created them.
Alone ==
    CASE fn = "newton" ->
            newton(arg.f, arg.fprime, arg.x, arg.tol, arg.max_iter, arg.fd_eps)
      [] fn = "newton_sqrt" -> newton_sqrt(arg.x, arg.tol, arg.max_iter)
      [] fn = "exp" -> exp(arg.x)
      [] fn = "log" -> log(arg.x, arg.base).v
      [] fn = "sinh" -> sinh(arg.x).v
      [] fn = "cosh" -> cosh(arg.x).v
      [] fn = "tanh" -> tanh(arg.x).v
      [] fn = "asinh" -> asinh(arg.x).v
      [] fn = "acosh" -> acosh(arg.x).v
      [] fn = "atanh" -> atanh(arg.x).v
      [] fn = "sin" -> sin(arg.x)
      [] fn = "cos" -> cos(arg.x)
      [] fn = "tan" -> tan(arg.x)
      [] fn = "_sin_series_cheb" -> sin_series_from(arg.x, SIN_ODD_COEFFS)
      [] fn = "_cos_series_cheb" -> cos_series_from(arg.x, COS_EVEN_COEFFS)

\* A step of a call of a core function, by either caller.
CoreStep == call_vars' # call_vars \/ t2' # t2

\* C15: calls of the core functions read and write no shared mutable state:
\* under any interleaving of the two callers' steps with each other and with
\* set_backend, a completed call has the result it has when run alone with
\* the same argument, and no step of a call changes the active backend, the
\* backend registry or the coefficient lists.
C15_CallsShareNoState ==
    /\ [](/\ pc = "done" => ret.v = Alone
          /\ t2.pc = "done" => t2.ret.v = newton_sqrt(t2.x, t2.tol, t2.max_iter)
          /\ _A_SIN_ODD = SIN_ODD_COEFFS
          /\ _A_COS_EVEN = COS_EVEN_COEFFS)
    /\ [][CoreStep => UNCHANGED <<_BACKENDS, _CURRENT, _A_SIN_ODD, _A_COS_EVEN>>]_vars

\* newton returned from its second pass while the second caller was inside
\* the loop of newton_sqrt and the pure backend had been made active.
C15_Witness ==
    /\ fn = "newton" /\ pc = "done" /\ n >= 2 /\ ret.kind = "return"
    /\ t2.pc = "loop" /\ t2.i >= 1
    /\ get_backend_name = "pure" /\ set_ret.name = "pure"

\* |x| of a Python int x.
AbsOf(x) == IF x.v >= 0 THEN x.v ELSE -x.v

\* The absolute values of the arguments of the completed call of gcd.
GcdAbs == {AbsOf(arg.args[j]) : j \in 1..Len(arg.args)}

\* The sum of the absolute values of the first j arguments.
RECURSIVE AbsSum(_, _)
AbsSum(args, j) == IF j = 0 THEN 0 ELSE AbsOf(args[j]) + AbsSum(args, j - 1)

MaxOf(S) == CHOOSE m \in S : \A a \in S : a <= m

\* d divides every member of S.
DividesAll(d, S) == \A a \in S : a % d = 0

\* The greatest common divisor of a set of naturals; 0 when all are 0.
GcdOf(S) ==
    IF S = {0} THEN 0
    ELSE CHOOSE d \in 1..MaxOf(S) :
            DividesAll(d, S) /\ \A c \in 1..MaxOf(S) : DividesAll(c, S) => c <= d

\* A completed call of gcd on a non-empty tuple of ints and bools.
GcdCall ==
    /\ fn = "gcd" /\ pc = "done" /\ Len(arg.args) >= 1
    /\ \A j \in 1..Len(arg.args) : arg.args[j].t = "int"

\* C21: for every non-empty tuple of integers (negative, zero and bool values
\* included) gcd terminates, the while loop making no more passes than the sum
\* of the absolute values, and returns the non-negative greatest common
\* divisor of the absolute values: 0 exactly when all arguments are 0.
C21_GcdOfAbsoluteValues ==
    GcdCall =>
        /\ ret.kind = "return"
        /\ ret.v.t = "int"
        /\ ret.v.v >= 0
        /\ ret.v.v = GcdOf(GcdAbs)
        /\ (ret.v.v = 0) <=> (GcdAbs = {0})
        /\ gcd_run(arg.args).steps <= AbsSum(arg.args, Len(arg.args))

\* gcd(-12, 18, True) returned 1 and gcd(False, -12, 18) returns 6 after
\* passes of the while loop.
C21_Witness ==
    /\ GcdCall
    /\ arg.args = <<py_int("int", -12), py_int("int", 18), py_int("bool", 1)>>
    /\ ret.v.v = 1
    /\ gcd(<<py_int("bool", 0), py_int("int", -12), py_int("int", 18)>>)
          = py_int("int", 6)
    /\ gcd_run(arg.args).steps >= 3

\* The public entry points.
TrigNames == {"sin", "cos", "tan"}
HyperNames == {"sinh", "cosh", "tanh", "asinh", "acosh", "atanh"}
EntryPoints == TrigNames \cup HyperNames \cup {"exp", "log", "newton_sqrt"}

\* A call of an entry point on NaN, +Inf or -Inf has completed.
NonFiniteCall ==
    pc = "done" /\ fn \in EntryPoints /\ arg.x \in {NAN, INF, NINF}

\* The base of the call is absent or a finite one that log does not reject.
BaseAccepted ==
    \/ arg.base = NoBase
    \/ (FGt(arg.base, Zero(FALSE)) /\ FNe(arg.base, One) /\ FLt(arg.base, INF))

\* The call returned without a callee, a seed or a Newton update.
NoWorkDone == ret.kind = "return" /\ calls = {} /\ n = 0 /\ ~seeded

\* C22 as stated: every public entry point tests its input for NaN and +-Inf
\* and returns its special value before any range reduction, seed computation,
\* kernel evaluation or Newton iteration starts; pure sin, cos and tan return
\* NaN for NaN, +Inf and -Inf.
\* Read with log(-Inf) raising its domain error as the special outcome, and
\* for calls of log without a base or with a finite base log does not reject.
C22_SpecialsBeforeAnyWork ==
    (NonFiniteCall /\ BaseAccepted) =>
        /\ calls = {} /\ n = 0 /\ ~seeded
        /\ ret.kind = "return" \/ (fn = "log" /\ arg.x = NINF)
        /\ fn \in TrigNames => ret.v = NAN

\* C22, amended: the same for every entry point except log on an infinity.
\* log(-Inf) raises InvalidValueError, before any work; log(+Inf, base) skips
\* the work on x but, for a valid base, computes log(base) by seed and Newton
\* iteration and returns +Inf divided by it (+Inf for base > 1, -Inf for
\* 0 < base < 1, NaN for base = +Inf); a NaN base gives NaN and a base <= 0
\* or == 1 raises InvalidValueError.
C22_SpecialsBeforeWorkOnInput ==
    NonFiniteCall =>
        /\ (fn # "log" \/ arg.x = NAN \/ (arg.x = INF /\ arg.base = NoBase)) =>
              NoWorkDone
        /\ fn \in TrigNames \cup HyperNames => ret.v = NAN
        /\ fn = "exp" =>
              ret.v = (CASE arg.x = NAN -> NAN
                         [] arg.x = INF -> INF
                         [] arg.x = NINF -> Zero(FALSE))
        /\ fn = "newton_sqrt" => ret.v = (IF arg.x = INF THEN INF ELSE NAN)
        /\ (fn = "log" /\ arg.x = NAN) => ret.v = NAN
        /\ (fn = "log" /\ arg.x = NINF) =>
              ret = Raised(Exc("InvalidValueError"), NoErr) /\ calls = {}
        /\ (fn = "log" /\ arg.x = INF /\ arg.base = NoBase) => ret.v = INF
        /\ (fn = "log" /\ arg.x = INF /\ arg.base # NoBase) =>
              /\ calls \subseteq {"log", "frexp", "newton", "exp"}
              /\ ret.v = (CASE arg.base = NAN -> NAN
                            [] arg.base = INF -> NAN
                            [] FLe(arg.base, Zero(FALSE)) \/ arg.base = One ->
                                  Exc("InvalidValueError")
                            [] FLt(Zero(FALSE), arg.base) /\ FLt(arg.base, One)
                                  -> NINF
                            [] OTHER -> INF)

\* log(+Inf, 0.5) returned -Inf after the Newton refinement of log(0.5).
C22_Witness ==
    /\ NonFiniteCall
    /\ fn = "log" /\ arg.x = INF /\ arg.base = Half
    /\ ret = Returned(NINF)
    /\ "newton" \in calls
    /\ sin(NINF) = NAN /\ tan(INF) = NAN /\ exp(NINF) = Zero(FALSE)

\* (s, c) of a reduction result: (r_hi + r_lo, 1) when |r_hi + r_lo| < 2**-40,
\* the kernels' pair otherwise.
SmallBranch(rd) == sticky(FAdd(rd.h, rd.l))
PairOf(rd) ==
    IF SmallBranch(rd) THEN SC(FAdd(rd.h, rd.l), One)
    ELSE _sin_cos_dd(rd.h, rd.l)

\* The quadrant tables of the specification.
SinTable(q, P) ==
    CASE q = 0 -> P.s [] q = 1 -> P.c [] q = 2 -> FNeg(P.s) [] q = 3 -> FNeg(P.c)
CosTable(q, P) ==
    CASE q = 0 -> P.c [] q = 1 -> FNeg(P.s) [] q = 2 -> FNeg(P.c) [] q = 3 -> P.s

\* The integer k of the reduction of x after the post-correction, from the
\* rounded k on.
FinalKFrom(x, k) == correct(Red(k, reduce_r(x, k.f))).k
FinalK(x) == FinalKFrom(x, reduce_k(x))

\* A completed call of pure sin or cos whose integer k is exact in the
\* model's floats.
SmallKCall ==
    /\ fn \in {"sin", "cos"} /\ pc = "done" /\ IsFin(arg.x)
    /\ reduce_k(arg.x).t = "int"
    /\ FLt(FAbs(reduce_k(arg.x).f), Pow2F(Prec - 2))

\* C23: for every reduction result (q, s, c) pure sin returns s, c, -s, -c
\* and pure cos returns c, -s, -c, s for q = 0, 1, 2, 3, in the
\* small-remainder branch (s = r, c = 1) as in the kernel branch; and the q of
\* the reduction is the residue modulo 4, in 0..3, of the final k, for
\* negative as for non-negative k.
C23_QuadrantTables ==
    /\ (fn = "sin_reduced" /\ pc = "done") =>
          ret = Returned(SinTable(arg.rd.q, PairOf(arg.rd)))
    /\ (fn = "cos_reduced" /\ pc = "done") =>
          ret = Returned(CosTable(arg.rd.q, PairOf(arg.rd)))
    /\ SmallKCall =>
          /\ _reduce_pi2(arg.x).q \in 0..3
          /\ _reduce_pi2(arg.x).q = TruncInt(FinalK(arg.x).f) % 4
          /\ fn = "sin" =>
                ret = Returned(SinTable(_reduce_pi2(arg.x).q,
                                        PairOf(_reduce_pi2(arg.x))))
          /\ fn = "cos" =>
                ret = Returned(CosTable(_reduce_pi2(arg.x).q,
                                        PairOf(_reduce_pi2(arg.x))))

\* cos on the reduction result (1, 2**-41, 0) returned -2**-41 from the
\* small-remainder branch; sin(-1.5) has k = -1 and q = 3, sin(-3) has k = -2
\* and q = 2, from the kernel branch.
C23_Witness ==
    /\ fn = "cos_reduced" /\ pc = "done"
    /\ arg.rd.q = 1 /\ arg.rd.h = Pow2F(-41) /\ IsZero(arg.rd.l)
    /\ SmallBranch(arg.rd)
    /\ ret = Returned(FNeg(Pow2F(-41)))
    /\ TruncInt(FinalK(Quarters(-6)).f) = -1 /\ _reduce_pi2(Quarters(-6)).q = 3
    /\ TruncInt(FinalK(FromInt(-3)).f) = -2 /\ _reduce_pi2(FromInt(-3)).q = 2
    /\ ~SmallBranch(_reduce_pi2(FromInt(-3)))

\* A completed call of exp on a finite x within the clamps.
ExpReducedCall ==
    /\ fn = "exp" /\ pc = "done" /\ IsFin(arg.x)
    /\ FLe(MIN_LOG, arg.x) /\ FLe(arg.x, MAX_LOG)

\* |r| <= ln2/2, with ln2/2 as exp computes it.
InHalfLn2(r) == FLe(FNeg(half_ln2), r) /\ FLe(r, half_ln2)

\* C24: for every finite x with MIN_LOG <= x <= MAX_LOG the remainder r that
\* exp passes to its Pade kernel lies in [-ln2/2, ln2/2].
C24_ExpRemainderInInterval ==
    ExpReducedCall => InHalfLn2(exp_reduce(arg.x).r)

\* C25: for every finite x with MIN_LOG <= x <= MAX_LOG the integer k of the
\* reconstruction 2^k * kernel(r) satisfies -1024 < k < 1024.
C25_ExpExponentBelow1024 ==
    ExpReducedCall =>
        (-1024 < exp_reduce(arg.x).k /\ exp_reduce(arg.x).k < 1024)

\* b is a after no correction, or after k += 1 with ln2 taken from r, or
\* after k -= 1 with ln2 added to r.
ExpStep(a, b) ==
    \/ b = a
    \/ b.k = a.k + 1 /\ b.r = FSub(FSub(a.r, LN2_HI), LN2_LO)
    \/ b.k = a.k - 1 /\ b.r = FAdd(FAdd(a.r, LN2_HI), LN2_LO)

\* |x - (k * ln2 + r)| is within the rounding error of the operations.
ExpNear(x, kr) ==
    FLe(FAbs(FSub(x, FAdd(FMul(FromInt(kr.k), LN2), kr.r))),
        FMul(Pow2F(3 - Prec), FAdd(One, FAbs(x))))

\* The outcome b of the post-correction of (k, rd): j steps up or down, each
\* k += 1 with pi/2 taken from the remainder or k -= 1 with pi/2 added.
RECURSIVE TrigSteps(_, _, _)
TrigSteps(rem, sign, j) ==
    IF j = 0 THEN rem
    ELSE TrigSteps(_dd_add_pi2(rem.h, rem.l, sign), sign, j - 1)

TrigStepped(k, rd, b) ==
    \E j \in 0..2 :
        \/ b.k = k + j /\ DD(b.h, b.l) = TrigSteps(DD(rd.h, rd.l), -1, j)
        \/ b.k = k - j /\ DD(b.h, b.l) = TrigSteps(DD(rd.h, rd.l), 1, j)

\* k * (pi/2) + r is the same before and after, within the rounding error.
TrigNear(k, rd, b) ==
    FLe(FAbs(FSub(FAdd(FMul(FromInt(k), PI2_HI), rd.h),
                  FAdd(FMul(FromInt(b.k), PI2_HI), b.h))),
        Pow2F(7 - Prec))

\* C26: every correction step of the reductions preserves the reduction
\* identity: in exp each guard changes k by +-1 and r by -+ln2, so that
\* x = k * ln2 + r still holds; in the pure trig reduction each
\* post-correction (at most two in one direction) changes k by +-1 and r by
\* -+pi/2, so that k * (pi/2) + r is unchanged.
C26_CorrectionsKeepIdentity ==
    /\ ExpReducedCall =>
          /\ ExpStep(exp_trunc(arg.x), exp_shift(exp_trunc(arg.x)))
          /\ ExpStep(exp_shift(exp_trunc(arg.x)), exp_reduce(arg.x))
          /\ ExpNear(arg.x, exp_trunc(arg.x))
          /\ ExpNear(arg.x, exp_shift(exp_trunc(arg.x)))
          /\ ExpNear(arg.x, exp_reduce(arg.x))
    /\ (fn = "correct" /\ pc = "done") =>
          /\ ret.kind = "return"
          /\ TrigStepped(arg.k, arg.rd, ret.v)
          /\ TrigNear(arg.k, arg.rd, ret.v)
          /\ ret.v.q = ret.v.k % 4

\* The post-correction of (k, r) = (-2, 2.5) returned k = 0 after two steps
\* up, and exp(MAX_LOG) shifts k up to 1024 and the guard takes it back.
C26_Witness ==
    /\ fn = "correct" /\ pc = "done"
    /\ arg.k = -2 /\ arg.rd.h = Quarters(10) /\ IsZero(arg.rd.l)
    /\ ret.v.k = 0 /\ FLt(ret.v.h, Zero(FALSE))
    /\ correct_from(1, [arg.rd EXCEPT !.h = Quarters(-4)]).k = 0
    /\ exp_trunc(MAX_LOG).k = 1023
    /\ exp_shift(exp_trunc(MAX_LOG)).k = 1024
    /\ exp_reduce(MAX_LOG).k = 1023

\* C27: in pure sin and cos a reduced remainder with |r_hi + r_lo| < 2^-40 is
\* snapped to exactly zero before the quadrant combination, so that sin
\* returns exactly 0 in quadrants 0 and 2 and cos returns exactly 0 in
\* quadrants 1 and 3.
C27_StickyZero ==
    (pc = "done" /\ fn \in {"sin_reduced", "cos_reduced"}
         /\ SmallBranch(arg.rd)) =>
        /\ (fn = "sin_reduced" /\ arg.rd.q \in {0, 2}) => IsZero(ret.v)
        /\ (fn = "cos_reduced" /\ arg.rd.q \in {1, 3}) => IsZero(ret.v)

\* ------------------------------------------------------------------------
\* sinh and cosh by range of |x|
\* ------------------------------------------------------------------------

HyperCall == pc = "done" /\ fn \in {"sinh", "cosh"} /\ IsFin(arg.x)
Magnitude(x) == [x EXCEPT !.neg = FALSE]
SignedBy(x, v) == IF x.neg THEN FNeg(v) ELSE v
Overflowed(e) == IsNaN(e) \/ e = INF
Tiny(x) == FLt(Magnitude(x), SMALL_X)
Huge(x) == FGt(Magnitude(x), LARGE_X)

\* What the three ranges prescribe for sinh(x) and cosh(x), e being the
\* exponential the range uses.
SinhTiny(x) == x
CoshTiny(x) == FAdd(One, FMul(FMul(Half, x), x))
SinhHuge(x, e) ==
    IF Overflowed(e) THEN SignedBy(x, INF) ELSE SignedBy(x, FMul(Half, e))
CoshHuge(e) == IF Overflowed(e) THEN INF ELSE FMul(Half, e)
SinhMid(e) == FMul(Half, FSub(e, FDiv(One, e)))
CoshMid(e) == FMul(Half, FAdd(e, FDiv(One, e)))

\* C28: for finite x, sinh returns x itself (signed zero kept) and cosh
\* 1 + 0.5*x*x when |x| < 1e-8, without calling exp; when |x| > 350 sinh
\* returns sign(x)*0.5*exp(|x|), or sign(x)*Inf if exp(|x|) is +Inf or NaN, and
\* cosh 0.5*exp(|x|), or +Inf; otherwise both form e = exp(x) and return
\* 0.5*(e - 1/e) and 0.5*(e + 1/e).
C28_HyperbolicBranches ==
    HyperCall =>
        /\ ret.kind = "return"
        /\ Tiny(arg.x) =>
              /\ calls = {}
              /\ fn = "sinh" => ret.v = SinhTiny(arg.x)
              /\ fn = "cosh" => ret.v = CoshTiny(arg.x)
        /\ (~Tiny(arg.x) /\ Huge(arg.x)) =>
              /\ calls = {"exp"}
              /\ fn = "sinh" => ret.v = SinhHuge(arg.x, exp(Magnitude(arg.x)))
              /\ fn = "cosh" => ret.v = CoshHuge(exp(Magnitude(arg.x)))
        /\ (~Tiny(arg.x) /\ ~Huge(arg.x)) =>
              /\ calls = {"exp"}
              /\ fn = "sinh" => ret.v = SinhMid(exp(arg.x))
              /\ fn = "cosh" => ret.v = CoshMid(exp(arg.x))

\* sinh(-2^600) overflowed to -Inf through exp; the other ranges give
\* sinh(-0.0) = -0.0, cosh(2^-30) = 1 and sinh(-351) = -0.5*exp(351), finite.
C28_Witness ==
    /\ HyperCall
    /\ fn = "sinh" /\ arg.x = FNeg(BigF)
    /\ ret = Returned(NINF) /\ calls = {"exp"}
    /\ sinh(Zero(TRUE)).v = Zero(TRUE)
    /\ cosh(Lit(FALSE, 1, -30)).v = One
    /\ IsFin(sinh(FromInt(-351)).v) /\ sinh(FromInt(-351)).v.neg
    /\ sinh(FromInt(-351)).v = FNeg(FMul(Half, exp(FromInt(351))))
    /\ IsFin(cosh(One).v) /\ FGt(cosh(One).v, One)

\* ------------------------------------------------------------------------
\* newton_sqrt: the initial estimate
\* ------------------------------------------------------------------------

\* newton_sqrt has derived its initial estimate and run no pass yet.
SqrtSeeded == pc = "loop" /\ fn = "newton_sqrt" /\ seeded /\ i = 0
\* x/2 <= y*y <= 2*x, each side formed without a division.
WithinRoot2(x, y) ==
    /\ FLe(x, FMul(Two, FMul(y, y)))
    /\ FLe(FMul(y, y), FMul(Two, x))

\* C29: for every finite x > 0, normal or subnormal, of odd or even binary
\* exponent, the initial estimate y0 of newton_sqrt is within a factor of
\* sqrt(2) of sqrt(x): x/2 <= y0*y0 <= 2*x.
C29_SeedWithinRoot2 == SqrtSeeded => WithinRoot2(arg.x, cur)

\* ------------------------------------------------------------------------
\* set_backend: the failing call
\* ------------------------------------------------------------------------

\* name is neither registered nor "pure".
UnknownBackend(name) == name \notin DOMAIN _BACKENDS /\ name # "pure"
\* A step in which set_backend(name) completes.
SetBackendStep(name) ==
    /\ set_ret'.name = name
    /\ UNCHANGED call_vars
    /\ \/ set_ret' # set_ret
       \/ _CURRENT' # _CURRENT
       \/ _BACKENDS' # _BACKENDS
\* The step raised ValueError and left the registry and the active backend as
\* they were.
FailedUnchanged ==
    /\ set_ret'.raised = "ValueError"
    /\ _CURRENT' = _CURRENT
    /\ _BACKENDS' = _BACKENDS
    /\ _CURRENT'.name = get_backend_name

\* C30: set_backend called with a name that is neither registered nor "pure"
\* raises ValueError and leaves the active backend and the registry unchanged,
\* so get_backend_name() returns the same name after the failed call as before
\* it; and no other call raises.
C30_FailedSetBackendChangesNothing ==
    [][\A name \in BackendNames :
          SetBackendStep(name) =>
              IF UnknownBackend(name) THEN FailedUnchanged
              ELSE set_ret'.raised = "None"]_vars

\* set_backend("PURE") has just failed while the pure backend, registered by
\* an earlier call, is the active one.
C30_Witness ==
    /\ set_ret = [name |-> "PURE", raised |-> "ValueError"]
    /\ get_backend_name = "pure"
    /\ DOMAIN _BACKENDS = {"system", "pure"}
    /\ _BACKENDS["pure"] = get_backend

====
